---- MODULE Spec2Model ----
(***************************************************************************)
(* Marketing-copy agent: the Convex backend (agent.ts, messages.ts with    *)
(* the session mutations, streamHandler.ts) and the two handlers of the    *)
(* chat component that drive it (handleSubmit, handleApproval).            *)
(*                                                                         *)
(* The three tables are sequences in insertion order; `.first()` on the    *)
(* by_session index is the first record of the table with that sessionId.  *)
(* A run is one invocation of an action or handler; it advances one        *)
(* database transaction (or one generator yield plus its projection) at a  *)
(* time, so mutations of different runs interleave.                        *)
(***************************************************************************)
EXTENDS Integers, Sequences, FiniteSets, TLC

VARIABLES env, sessions, messages, pendingApprovals, runs, now

vars == <<env, sessions, messages, pendingApprovals, runs, now>>

(***************************************************************************)
(* Bounds                                                                  *)
(***************************************************************************)
MaxRuns == 2

\* the number of mutation calls that the clients of SpecApi make
MaxCalls == 4

(***************************************************************************)
(* Values                                                                  *)
(***************************************************************************)
\* a field that is absent from a document (JavaScript undefined)
Undefined == "<undefined>"

Queries == {"q"}
PlatformLists == {<<"LinkedIn", "X">>}
Modes == {"fast", "deep"}
Refinements == {"", "r"}
Statuses == {"researching", "waiting_approval", "generating", "complete"}

DefaultScope == [time_window |-> "last 30 days", region |-> "global", domain |-> "general"]

\* JavaScript truthiness of an optional string
Truthy(s) == s # Undefined /\ s # ""

\* a || b on optional strings
OrElse(a, b) == IF Truthy(a) THEN a ELSE b

Range(seq) == {seq[i] : i \in 1..Len(seq)}

RECURSIVE SelectIdx(_, _, _)
\* indices i >= from of seq whose record has sessionId sid, ascending
SelectIdx(seq, sid, from) ==
  IF from > Len(seq) THEN <<>>
  ELSE IF seq[from].sessionId = sid THEN <<from>> \o SelectIdx(seq, sid, from + 1)
  ELSE SelectIdx(seq, sid, from + 1)

\* .withIndex("by_session", q => q.eq("sessionId", sid)).first(): 0 when null
FirstIdx(tbl, sid) ==
  LET ix == SelectIdx(tbl, sid, 1) IN IF ix = <<>> THEN 0 ELSE ix[1]

(***************************************************************************)
(* The database seen by one transaction                                    *)
(***************************************************************************)
DB(s, m, p) == [s |-> s, m |-> m, p |-> p, ok |-> TRUE]

\* the transaction threw: nothing is committed
Throw(db) == [db EXCEPT !.ok = FALSE]

(***************************************************************************)
(* messages.ts                                                             *)
(***************************************************************************)
\* an optional list or map that is absent from a document
NoList == [none |-> TRUE]

\* an optional array that is absent from a document
NoSeq == [i \in {0} |-> 0]

\* a parsed JSON value that is an object where a list is expected: it has
\* no length
NotArray == [i \in {-1} |-> 0]

\* x || [] and x || {}
ListOr(x) == IF x = NoSeq THEN <<>> ELSE x

\* x || {}
MapOr(x) == IF x = NoList THEN <<>> ELSE x

\* t: the value of Date.now() in the transaction
\* a variant that rewrites the latest research message of the session
\* instead of adding another one
addMessageUpsert(db, sessionId, type, content, platform, ideas, metadata, t) ==
  LET rec == [sessionId |-> sessionId, type |-> type, content |-> content,
              platform |-> platform, ideas |-> ideas, metadata |-> metadata,
              timestamp |-> t]
      old == {i \in 1..Len(db.m) : db.m[i].sessionId = sessionId /\ db.m[i].type = "research"}
  IN IF type = "research" /\ old # {}
     THEN [db EXCEPT !.m[CHOOSE i \in old : \A j \in old : j <= i] = rec]
     ELSE [db EXCEPT !.m = Append(@, rec)]

addMessage(db, sessionId, type, content, platform, ideas, metadata, t) ==
  [db EXCEPT !.m = Append(@, [sessionId |-> sessionId, type |-> type,
                              content |-> content, platform |-> platform,
                              ideas |-> ideas, metadata |-> metadata,
                              timestamp |-> t])]

getMessages(msgs, sessionId) ==
  SelectSeq(msgs, LAMBDA x : x.sessionId = sessionId)

\* a variant that clears the whole log
deleteMessagesAll(db, sessionId) == [db EXCEPT !.m = <<>>]

deleteMessages(db, sessionId) ==
  [db EXCEPT !.m = SelectSeq(@, LAMBDA x : x.sessionId # sessionId)]

(***************************************************************************)
(* session mutations                                                       *)
(***************************************************************************)
createSession(db, sessionId, query, platforms) ==
  [db EXCEPT !.s = Append(@, [sessionId |-> sessionId, query |-> query,
                              platforms |-> platforms, status |-> "researching",
                              research |-> Undefined, sources |-> NoSeq,
                              trendingTopics |-> NoSeq, ideas |-> NoList])]

getSession(tbl, sessionId) == FirstIdx(tbl, sessionId)

\* updates: a record holding only the fields that were passed
updateSession(db, sessionId, updates) ==
  LET k == FirstIdx(db.s, sessionId) IN
  IF k = 0 THEN Throw(db)
  ELSE [db EXCEPT !.s[k] =
          [f \in DOMAIN @ |-> IF f \in DOMAIN updates THEN updates[f] ELSE @[f]]]

\* currentIdeas[platform] = ideas
SetKey(map, key, val) ==
  [k \in DOMAIN map \cup {key} |-> IF k = key THEN val ELSE map[k]]

\* a variant that writes whatever status it is given
updateIdeasUnguarded(db, sessionId, platform, ideas, status) ==
  LET k == FirstIdx(db.s, sessionId) IN
  IF k = 0 THEN Throw(db)
  ELSE LET currentIdeas == SetKey(MapOr(db.s[k].ideas), platform, ideas) IN
       IF status # Undefined
       THEN [db EXCEPT !.s[k].ideas = currentIdeas, !.s[k].status = status]
       ELSE [db EXCEPT !.s[k].ideas = currentIdeas]

updateIdeas(db, sessionId, platform, ideas, status) ==
  LET k == FirstIdx(db.s, sessionId) IN
  IF k = 0 THEN Throw(db)
  ELSE LET currentIdeas == SetKey(MapOr(db.s[k].ideas), platform, ideas) IN
       IF status # Undefined /\ db.s[k].status # "complete"
       THEN [db EXCEPT !.s[k].ideas = currentIdeas, !.s[k].status = status]
       ELSE [db EXCEPT !.s[k].ideas = currentIdeas]

\* a variant that removes the approval records of the session as well
resetSessionAll(db, sessionId, query) ==
  LET k == FirstIdx(db.s, sessionId) IN
  IF k = 0 THEN Throw(db)
  ELSE [db EXCEPT !.s[k] = [@ EXCEPT !.query = OrElse(query, @),
                                     !.research = Undefined,
                                     !.sources = NoSeq,
                                     !.trendingTopics = NoSeq,
                                     !.ideas = NoList,
                                     !.status = "researching"],
                  !.p = SelectSeq(@, LAMBDA a : a.sessionId # sessionId)]

resetSession(db, sessionId, query) ==
  LET k == FirstIdx(db.s, sessionId) IN
  IF k = 0 THEN Throw(db)
  ELSE [db EXCEPT !.s[k] = [@ EXCEPT !.query = OrElse(query, @),
                                     !.research = Undefined,
                                     !.sources = NoSeq,
                                     !.trendingTopics = NoSeq,
                                     !.ideas = NoList,
                                     !.status = "researching"]]

(***************************************************************************)
(* pending approvals                                                       *)
(***************************************************************************)
\* a variant that inserts a record at every call
storePendingApprovalInsert(db, a) ==
  [db EXCEPT !.p = Append(@,
     [sessionId |-> a.sessionId, research |-> a.research,
      researchReport |-> a.researchReport, sources |-> a.sources,
      trendingTopics |-> a.trendingTopics, enrichedTrends |-> a.enrichedTrends,
      confidenceScores |-> a.confidenceScores, scope |-> a.scope,
      platforms |-> a.platforms, originalQuery |-> a.originalQuery,
      mode |-> a.mode, approved |-> "false", needsRefinement |-> "false"])]

\* a: the arguments of the call; persona is not among the stored fields
storePendingApproval(db, a) ==
  LET k == FirstIdx(db.p, a.sessionId)
      data == [sessionId |-> a.sessionId, research |-> a.research,
               researchReport |-> a.researchReport, sources |-> a.sources,
               trendingTopics |-> a.trendingTopics,
               enrichedTrends |-> a.enrichedTrends,
               confidenceScores |-> a.confidenceScores, scope |-> a.scope,
               platforms |-> a.platforms, originalQuery |-> a.originalQuery,
               mode |-> a.mode, approved |-> "false", needsRefinement |-> "false"]
  IN IF k # 0 THEN [db EXCEPT !.p[k] = data]
     ELSE [db EXCEPT !.p = Append(@, data)]

getPendingApproval(tbl, sessionId) == FirstIdx(tbl, sessionId)

\* a variant that consumes the record of the session
updatePendingApprovalConsume(db, sessionId, approved, needsRefinement) ==
  IF FirstIdx(db.p, sessionId) = 0 THEN Throw(db)
  ELSE [db EXCEPT !.p = SelectSeq(@, LAMBDA x : x.sessionId # sessionId)]

\* approved, needsRefinement: "true", "false" or Undefined (argument omitted);
\* the patch writes both fields, an omitted one as undefined
updatePendingApproval(db, sessionId, approved, needsRefinement) ==
  LET k == FirstIdx(db.p, sessionId) IN
  IF k = 0 THEN Throw(db)
  ELSE [db EXCEPT !.p[k].approved = approved,
                  !.p[k].needsRefinement = needsRefinement]

(***************************************************************************)
(* Idea strings are sequences of one-character strings, so that the        *)
(* regular expressions of the projector act on characters.                 *)
(***************************************************************************)
WS == {" ", "\n", "\t", "\r"}
BackSlash == "\\"
Quote == "\""
\* the backquote character (a string literal cannot hold it)
Bq == "bq"
Fence == <<Bq, Bq, Bq>>
FenceJson == <<Bq, Bq, Bq, "j", "s", "o", "n">>

Lower(c) == CASE c = "J" -> "j" [] c = "S" -> "s" [] c = "O" -> "o"
              [] c = "N" -> "n" [] OTHER -> c

DropN(str, n) == SubSeq(str, n + 1, Len(str))
TakeN(str, n) == SubSeq(str, 1, n)

\* str.startsWith(pre)
StartsWith(str, pre) == Len(str) >= Len(pre) /\ TakeN(str, Len(pre)) = pre

\* str.endsWith(suf)
EndsWith(str, suf) ==
  Len(str) >= Len(suf) /\ DropN(str, Len(str) - Len(suf)) = suf

StartsWithI(str, pre) ==
  /\ Len(str) >= Len(pre)
  /\ \A i \in 1..Len(pre) : Lower(str[i]) = pre[i]

RECURSIVE StripLeft(_, _)
\* remove the longest prefix made of characters of cs
StripLeft(str, cs) ==
  IF str # <<>> /\ str[1] \in cs THEN StripLeft(Tail(str), cs) ELSE str

RECURSIVE StripRight(_, _)
\* remove the longest suffix made of characters of cs
StripRight(str, cs) ==
  IF str # <<>> /\ str[Len(str)] \in cs
  THEN StripRight(TakeN(str, Len(str) - 1), cs) ELSE str

\* str.trim()
Trim(str) == StripRight(StripLeft(str, WS), WS)

\* str.replace(/^```json\s*/i, '')
ReFenceJsonStart(str) ==
  IF StartsWithI(str, FenceJson) THEN StripLeft(DropN(str, 7), WS) ELSE str

\* str.replace(/^```\s*/, '')
ReFenceStart(str) ==
  IF StartsWith(str, Fence) THEN StripLeft(DropN(str, 3), WS) ELSE str

\* str.replace(/\s*```$/, '')
ReFenceEnd(str) ==
  IF EndsWith(str, Fence) THEN StripRight(TakeN(str, Len(str) - 3), WS) ELSE str

\* str.replace(/^\[\s*/, '')
ReBracketStart(str) ==
  IF StartsWith(str, <<"[">>) THEN StripLeft(Tail(str), WS) ELSE str

\* str.replace(/\s*\]$/, '')
ReBracketEnd(str) ==
  IF EndsWith(str, <<"]">>) THEN StripRight(TakeN(str, Len(str) - 1), WS) ELSE str

RECURSIVE Unescape(_)
\* str.replace(/\\"/g, '"').replace(/\\n/g, ' '): a quote produced by the
\* first pass is never followed into a match of the second
Unescape(str) ==
  IF Len(str) < 2 THEN str
  ELSE IF str[1] = BackSlash /\ str[2] = Quote THEN <<Quote>> \o Unescape(DropN(str, 2))
  ELSE IF str[1] = BackSlash /\ str[2] = "n" THEN <<" ">> \o Unescape(DropN(str, 2))
  ELSE <<str[1]>> \o Unescape(Tail(str))

RECURSIVE ReTrailingComma(_, _)
\* str.replace(/,\s*$/, ''): cut at the leftmost comma followed only by
\* white space up to the end
ReTrailingComma(str, i) ==
  IF i > Len(str) THEN str
  ELSE IF str[i] = "," /\ \A j \in (i + 1)..Len(str) : str[j] \in WS
       THEN TakeN(str, i - 1)
       ELSE ReTrailingComma(str, i + 1)

\* str.match(/^[\[\]{}",\s]+$/)
IsStructure(str) ==
  str # <<>> /\ \A i \in 1..Len(str) : str[i] \in ({"[", "]", "{", "}", Quote, ","} \cup WS)

\* the first filter of the idea_stream branch
StreamKeepRaw(item) ==
  LET str == Trim(item) IN
  /\ str # FenceJson /\ str # Fence /\ str # <<"[">> /\ str # <<"]">> /\ str # <<",">>
  /\ Len(str) > 0
  /\ ~IsStructure(str)

\* the map of the idea_stream branch
StreamClean(idea) ==
  LET c1 == Trim(ReBracketEnd(ReBracketStart(ReFenceEnd(ReFenceStart(ReFenceJsonStart(idea))))))
      c2 == StripRight(StripLeft(c1, {Quote, "'", ","} \cup WS), {Quote, "'", ","} \cup WS)
      c3 == Unescape(c2)
  IN ReTrailingComma(c3, 1)

\* the last filter of the idea_stream branch
StreamKeepClean(idea) ==
  LET str == Trim(idea) IN
  /\ Len(str) > 5
  /\ ~IsStructure(str)
  /\ str # FenceJson /\ str # Fence
  /\ ~(StartsWith(str, <<Quote>>) /\ EndsWith(str, <<Quote>>) /\ Len(str) < 10)

\* seq.map(Op)
MapSeq(seq, Op(_)) == [i \in 1..Len(seq) |-> Op(seq[i])]

\* cleanedIdeas of the idea_stream branch
SanitizeStream(ideas) ==
  IF Len(ideas) > 0
  THEN SelectSeq(MapSeq(SelectSeq(ideas, StreamKeepRaw), StreamClean), StreamKeepClean)
  ELSE ideas

\* the first filter of the complete branch
CompleteKeepRaw(item) ==
  LET str == Trim(item) IN
  str # FenceJson /\ str # Fence /\ str # <<"[">> /\ str # <<"]">> /\ Len(str) > 0

\* the map of the complete branch
CompleteClean(idea) ==
  LET c1 == Trim(ReBracketEnd(ReBracketStart(ReFenceEnd(ReFenceStart(ReFenceJsonStart(idea))))))
      c2 == StripRight(StripLeft(c1, {Quote, "'", ","}), {Quote, "'", ","})
      c3 == Unescape(c2)
  IN ReTrailingComma(c3, 1)

\* the last filter of the complete branch
CompleteKeepClean(idea) ==
  LET str == Trim(idea) IN
  /\ Len(str) > 10
  /\ ~IsStructure(str)
  /\ ~StartsWith(str, <<Quote>>)
  /\ ~EndsWith(str, <<Quote>>)

\* cleanedIdeas of the complete branch: one entry per platform of the event
SanitizeComplete(ideas) ==
  [p \in DOMAIN ideas |->
     SelectSeq(MapSeq(SelectSeq(ideas[p], CompleteKeepRaw), CompleteClean), CompleteKeepClean)]

(***************************************************************************)
(* streamHandler.ts                                                        *)
(***************************************************************************)
Has(e, f) == f \in DOMAIN e

\* e.f for an optional string field
Get(e, f) == IF Has(e, f) THEN e[f] ELSE Undefined

\* new Date(t).toISOString()
ISO(t) == ToString(t)

\* trendingTopics.forEach(...) of formatPartialResearch
RECURSIVE FormatTopics(_, _)
FormatTopics(topics, index) ==
  IF index > Len(topics) THEN ""
  ELSE LET topic == topics[index] IN
       "### " \o ToString(index) \o ". " \o topic.topic \o "\n\n"
       \o "**Why it matters**: " \o topic.reason \o "\n\n"
       \o (IF Truthy(topic.url)
           THEN "**Source**: [View source](" \o topic.url \o ")\n\n" ELSE "")
       \o (IF Truthy(topic.timestamp)
           THEN "**Published**: " \o topic.timestamp \o "\n\n" ELSE "")
       \o (IF Truthy(topic.confidence)
           THEN "**Confidence**: " \o topic.confidence \o "\n\n" ELSE "")
       \o "---\n\n"
       \o FormatTopics(topics, index + 1)

RECURSIVE FormatSources(_, _)
FormatSources(sources, index) ==
  IF index > Len(sources) THEN ""
  ELSE ToString(index) \o ". [" \o sources[index] \o "](" \o sources[index] \o ")\n"
       \o FormatSources(sources, index + 1)

formatPartialResearch(trendingTopics, sources) ==
  "# Research Report (In Progress)\n\n"
  \o "*Finding trends... " \o ToString(Len(trendingTopics)) \o " trend"
  \o (IF Len(trendingTopics) # 1 THEN "s" ELSE "") \o " discovered so far.*\n\n"
  \o (IF Len(trendingTopics) > 0
      THEN "## Top Trends Discovered\n\n" \o FormatTopics(trendingTopics, 1) ELSE "")
  \o (IF Len(sources) > 0 THEN "## Sources\n\n" \o FormatSources(sources, 1) ELSE "")

\* a variant that recognises a duplicate by its url alone
ProjectTrendCandidateByUrl(db, sessionId, event, t) ==
  LET k == FirstIdx(db.s, sessionId) IN
  IF k = 0 THEN db
  ELSE
    LET session == db.s[k]
        currentTrendingTopics == ListOr(session.trendingTopics)
        newTopic == [topic |-> OrElse(event.candidate.title, "Trending topic"),
                     reason |-> "Found from " \o OrElse(event.candidate.source, "web"),
                     url |-> OrElse(event.candidate.url, ""),
                     timestamp |-> ISO(t),
                     confidence |-> "Medium"]
        exists == \E i \in 1..Len(currentTrendingTopics) :
                     currentTrendingTopics[i].url = newTopic.url
        updatedTopics == Append(currentTrendingTopics, newTopic)
        partialResearch == formatPartialResearch(updatedTopics, ListOr(session.sources))
        d1 == updateSession(db, sessionId, [trendingTopics |-> updatedTopics])
        d2 == updateSession(d1, sessionId, [research |-> partialResearch])
    IN IF exists THEN db
       ELSE addMessage(d2, sessionId, "research", partialResearch, Undefined, NoSeq,
                       [isPartial |-> TRUE, trendCount |-> Len(updatedTopics)], t)

\* the trend_candidate branch
ProjectTrendCandidate(db, sessionId, event, t) ==
  LET k == FirstIdx(db.s, sessionId) IN
  IF k = 0 THEN db
  ELSE
    LET session == db.s[k]
        currentTrendingTopics == ListOr(session.trendingTopics)
        newTopic == [topic |-> OrElse(event.candidate.title, "Trending topic"),
                     reason |-> "Found from " \o OrElse(event.candidate.source, "web"),
                     url |-> OrElse(event.candidate.url, ""),
                     timestamp |-> ISO(t),
                     confidence |-> "Medium"]
        exists == \E i \in 1..Len(currentTrendingTopics) :
                     \/ currentTrendingTopics[i].url = newTopic.url
                     \/ currentTrendingTopics[i].topic = newTopic.topic
        updatedTopics == Append(currentTrendingTopics, newTopic)
        partialResearch == formatPartialResearch(updatedTopics, ListOr(session.sources))
        d1 == updateSession(db, sessionId, [trendingTopics |-> updatedTopics])
        d2 == updateSession(d1, sessionId, [research |-> partialResearch])
    IN IF exists THEN db
       ELSE addMessage(d2, sessionId, "research", partialResearch, Undefined, NoSeq,
                       [isPartial |-> TRUE, trendCount |-> Len(updatedTopics)], t)

\* enriched_trends.map(...) of the trend_retrieval_complete branch
EnrichedTopics(trends, t) ==
  [index \in 1..Len(trends) |->
     [topic |-> OrElse(Get(trends[index], "title"),
                       OrElse(Get(trends[index], "topic"), "Trend " \o ToString(index))),
      reason |-> OrElse(Get(trends[index], "why_it_matters"),
                        OrElse(Get(trends[index], "reason"), "Relevant trend for marketing")),
      url |-> OrElse(Get(trends[index], "url"), ""),
      timestamp |-> OrElse(Get(trends[index], "published_date"), ISO(t)),
      confidence |-> "Medium"]]

\* the trend_retrieval_complete branch
ProjectTrendRetrievalComplete(db, sessionId, event, t) ==
  LET k == FirstIdx(db.s, sessionId)
      content == "Found " \o ToString(event.candidates_count) \o " trend candidates, enriched "
                 \o ToString(event.enriched_count) \o " trends"
      d3 == IF k # 0 /\ Has(event, "enriched_trends")
            THEN LET enrichedTopics == EnrichedTopics(event.enriched_trends, t)
                     partialResearch ==
                       formatPartialResearch(enrichedTopics, ListOr(db.s[k].sources))
                     d1 == updateSession(db, sessionId, [trendingTopics |-> enrichedTopics])
                     d2 == updateSession(d1, sessionId, [research |-> partialResearch])
                 IN addMessage(d2, sessionId, "research", partialResearch, Undefined, NoSeq,
                               [isPartial |-> TRUE, trendCount |-> Len(enrichedTopics)], t)
            ELSE db
  IN addMessage(d3, sessionId, "step", content, Undefined, NoSeq, event, t)

\* the message that one event becomes (first half of the handler), for the
\* event types that fall through to the common addMessage
MessageType(event) ==
  CASE event.type = "step" -> "step"
    [] event.type = "research_complete" -> "research"
    [] event.type = "approval_required" -> "approval"
    [] event.type = "idea_stream" -> "idea"
    [] OTHER -> "system"

MessageContent(event) ==
  CASE event.type = "step" -> OrElse(Get(event, "message"), "Processing...")
    [] event.type = "research_complete" ->
         OrElse(Get(event, "research"), OrElse(Get(event, "message"), "Research completed"))
    [] event.type = "approval_required" ->
         OrElse(Get(event, "message"),
                "Research complete. Waiting for your approval to proceed.")
    [] event.type = "idea_stream" ->
         "Generated " \o ToString(IF Has(event, "ideas") THEN Len(event.ideas) ELSE 0)
         \o " ideas for " \o Get(event, "platform")
    [] OTHER ->
         IF Truthy(Get(event, "message")) THEN event.message
         ELSE IF Truthy(Get(event, "content")) THEN event.content
         ELSE "[" \o event.type \o "] {...}"

\* Array.isArray(event.ideas) ? event.ideas : undefined
MessageIdeas(event) ==
  IF event.type = "idea_stream" /\ Has(event, "ideas") THEN event.ideas ELSE NoSeq

\* a variant that appends to the list of the platform
ProjectIdeaStreamAppend(db, sessionId, event) ==
  LET cleanedIdeas == SanitizeStream(IF Has(event, "ideas") THEN event.ideas ELSE <<>>)
      k == FirstIdx(db.s, sessionId)
      old == IF k # 0 /\ event.platform \in DOMAIN MapOr(db.s[k].ideas)
             THEN db.s[k].ideas[event.platform] ELSE <<>>
  IN IF k = 0 THEN Throw(db)
     ELSE [db EXCEPT !.s[k].ideas = SetKey(MapOr(@), event.platform, old \o cleanedIdeas)]

\* a variant that keeps the list of the event's platform only
ProjectIdeaStreamAlone(db, sessionId, event) ==
  LET cleanedIdeas == SanitizeStream(IF Has(event, "ideas") THEN event.ideas ELSE <<>>)
      k == FirstIdx(db.s, sessionId)
  IN IF k = 0 THEN Throw(db)
     ELSE [db EXCEPT !.s[k].ideas = SetKey(<<>>, event.platform, cleanedIdeas)]

\* the idea_stream branch of the session update
ProjectIdeaStream(db, sessionId, event) ==
  LET cleanedIdeas == SanitizeStream(IF Has(event, "ideas") THEN event.ideas ELSE <<>>)
      k == FirstIdx(db.s, sessionId)
  IN IF k = 0 THEN Throw(db)
     ELSE [db EXCEPT !.s[k].ideas = SetKey(MapOr(@), event.platform, cleanedIdeas)]

\* the complete branch of the session update
ProjectComplete(db, sessionId, event) ==
  LET cleanedIdeas == IF Has(event, "ideas") THEN SanitizeComplete(event.ideas) ELSE <<>>
      k == FirstIdx(db.s, sessionId)
  IN IF k = 0 THEN db
     ELSE updateSession(db, sessionId, [ideas |-> cleanedIdeas, status |-> "complete"])

\* a variant whose research_complete branch leaves the topics of the session
UpdateSessionStateNoTopics(db, sessionId, event) ==
  CASE event.type = "research_complete" ->
         updateSession(db, sessionId,
           [research |-> event.research, sources |-> event.sources,
            status |-> "waiting_approval"])
    [] event.type = "approval_required" ->
         updateSession(db, sessionId,
           [research |-> OrElse(event.research, event.research_report),
            sources |-> event.sources, status |-> "waiting_approval"])
    [] event.type = "idea_stream" -> ProjectIdeaStream(db, sessionId, event)
    [] event.type = "complete" -> ProjectComplete(db, sessionId, event)
    [] OTHER -> db

\* the second half of the handler: "Update session state".  The argument
\* validator of updateSession rejects a trendingTopics that is not a list
UpdateSessionState(db, sessionId, event) ==
  CASE event.type \in {"research_complete", "approval_required"}
         /\ event.trending_topics = NotArray -> Throw(db)
    [] event.type = "research_complete" ->
         updateSession(db, sessionId,
           [research |-> event.research, sources |-> event.sources,
            trendingTopics |-> event.trending_topics, status |-> "waiting_approval"])
    [] event.type = "approval_required" ->
         updateSession(db, sessionId,
           [research |-> OrElse(event.research, event.research_report),
            sources |-> event.sources,
            trendingTopics |-> event.trending_topics, status |-> "waiting_approval"])
    [] event.type = "idea_stream" -> ProjectIdeaStream(db, sessionId, event)
    [] event.type = "complete" -> ProjectComplete(db, sessionId, event)
    [] OTHER -> db

\* one call of the mutation; a throw anywhere rolls the whole call back
handleStreamEvent(db, sessionId, event, t) ==
  LET r ==
    CASE event.type \in {"complete", "research_partial"} ->
           UpdateSessionState(db, sessionId, event)
      [] event.type \in {"research_plan_complete", "research_report_partial"} -> db
      [] event.type = "trend_candidate" -> ProjectTrendCandidate(db, sessionId, event, t)
      [] event.type = "trend_retrieval_complete" ->
           ProjectTrendRetrievalComplete(db, sessionId, event, t)
      [] OTHER ->
           UpdateSessionState(
             addMessage(db, sessionId, MessageType(event), MessageContent(event),
                        Get(event, "platform"), MessageIdeas(event), event, t),
             sessionId, event)
  IN IF r.ok THEN r ELSE Throw(db)

(***************************************************************************)
(* agent.ts: the stages.  What the text-generation model and the search    *)
(* API answer is an argument (an outcome), chosen by the caller.           *)
(***************************************************************************)
EnrichCap == 15
ReportCap == 10
IdeaCap == 5
RedditHighScore == 100
DayMs == 86400000

\* the environment variables read by the constructor
Envs == [openai : BOOLEAN, tavily : BOOLEAN, composioKey : BOOLEAN, composioUser : BOOLEAN]

\* AgentState at the start of runStream (the fields the stages read or write)
InitialState ==
  [research |-> "", sources |-> <<>>, trendingTopics |-> <<>>,
   needsApproval |-> FALSE, currentStep |-> "starting",
   scope |-> DefaultScope, toolsToUse |-> <<>>, trendCandidates |-> <<>>,
   enrichedTrends |-> <<>>, researchReport |-> "", confidenceScores |-> <<>>]

\* state = { ...state, ...update }
Merge(state, update) ==
  [f \in DOMAIN state \cup DOMAIN update |->
     IF f \in DOMAIN update THEN update[f] ELSE state[f]]

\* the catch branch of the scope parse: keyword sniffing of the raw text
FallbackScope(words) ==
  [DefaultScope EXCEPT !.time_window =
     IF "week" \in words THEN "last 7 days"
     ELSE IF "month" \in words THEN "last 30 days"
     ELSE IF "quarter" \in words THEN "last 3 months"
     ELSE @]

\* out.kind: "json" (a {...} span that parses, to out.scope), "nomatch" (no
\* span), "badjson" (a span that does not parse; out.words are the keywords
\* found in the text)
ParseScope(out) ==
  CASE out.kind = "json" -> out.scope
    [] out.kind = "badjson" -> FallbackScope(out.words)
    [] OTHER -> DefaultScope

\* a variant of the tool selection whose fallback simulates one tool only
SelectToolsSingle(e) ==
  LET t1 == IF e.tavily THEN <<"tavily">> ELSE <<>>
      t2 == IF e.composioKey /\ e.composioUser THEN t1 \o <<"reddit">> ELSE t1
  IN IF Len(t2) = 0 THEN <<"tavily">> ELSE t2

\* a variant that selects the community tool on its API key alone
SelectToolsKeyOnly(e) ==
  LET t1 == IF e.tavily THEN <<"tavily">> ELSE <<>>
      t2 == IF e.composioKey THEN t1 \o <<"reddit">> ELSE t1
  IN IF Len(t2) = 0 THEN <<"tavily", "reddit">> ELSE t2

\* "Decide which tools to use"
SelectTools(e) ==
  LET t1 == IF e.tavily THEN <<"tavily">> ELSE <<>>
      t2 == IF e.composioKey /\ e.composioUser THEN t1 \o <<"reddit">> ELSE t1
  IN IF Len(t2) = 0 THEN <<"tavily", "reddit">> ELSE t2

researchPlanNode(state, e, out) ==
  [scope |-> ParseScope(out), toolsToUse |-> SelectTools(e),
   currentStep |-> "research_plan_complete"]

\* (data.results || []).map(...)
TavilyMap(results, t) ==
  [i \in 1..Len(results) |->
     [title |-> OrElse(Get(results[i], "title"), ""),
      content |-> OrElse(Get(results[i], "content"), ""),
      url |-> OrElse(Get(results[i], "url"), ""),
      published_date |-> OrElse(Get(results[i], "published_date"), ISO(t)),
      source |-> "tavily"]]

\* a variant whose failing fetch falls back to the simulated result
fetchFromTavilySimulated(query, scope, e, out, t) ==
  IF ~e.tavily \/ out.kind = "error"
  THEN << [title |-> "Trending: " \o query \o " in " \o OrElse(Get(scope, "domain"), "technology"),
           content |-> "Recent developments in " \o query
                       \o " show significant growth and adoption.",
           url |-> "https://example.com/trend1",
           published_date |-> ISO(t),
           source |-> "tavily"] >>
  ELSE TavilyMap(out.results, t)

\* out.kind: "error" (fetch rejects, or response not ok) or "ok" with
\* out.results
fetchFromTavily(query, scope, e, out, t) ==
  IF ~e.tavily
  THEN << [title |-> "Trending: " \o query \o " in " \o OrElse(Get(scope, "domain"), "technology"),
           content |-> "Recent developments in " \o query
                       \o " show significant growth and adoption.",
           url |-> "https://example.com/trend1",
           published_date |-> ISO(t),
           source |-> "tavily"] >>
  ELSE IF out.kind = "error" THEN <<>>
  ELSE TavilyMap(out.results, t)

fetchFromReddit(query, scope, e, t) ==
  IF ~e.composioKey \/ ~e.composioUser
  THEN << [title |-> "Discussion: " \o query \o " is gaining traction",
           content |-> "Community discussion about " \o query
                       \o " shows increasing interest.",
           url |-> "https://reddit.com/r/technology/example",
           published_date |-> ISO(t - DayMs),
           source |-> "reddit",
           score |-> 150, comments |-> 45, subreddit |-> "technology"] >>
  ELSE <<>>

\* a candidate with the three enrichment fields: { ...candidate, summary, ... }
WithEnrichment(candidate, summary, why, evidence) ==
  Merge(candidate, [summary |-> summary, why_it_matters |-> why, key_evidence |-> evidence])

\* out.kind: "throw" (the model call rejects), "nomatch" (no {...} span),
\* "badjson" (a span that does not parse; out.text is the answer) or "json"
\* (parsed: out.summary, out.why, out.evidence, each possibly absent)
EnrichOne(candidate, out) ==
  LET title == OrElse(Get(candidate, "title"), "")
      url == OrElse(Get(candidate, "url"), "")
  IN CASE out.kind = "throw" ->
            WithEnrichment(candidate, title, "Relevant trend for marketing", <<url>>)
       [] out.kind = "nomatch" ->
            WithEnrichment(candidate, title, "Relevant trend", <<url>>)
       [] out.kind = "badjson" ->
            WithEnrichment(candidate, OrElse(out.text, title),
                           "Relevant trend for target audience", <<url>>)
       [] OTHER ->
            WithEnrichment(candidate, OrElse(out.summary, title),
                           OrElse(out.why, "Relevant trend"),
                           IF out.evidence = NoSeq THEN <<url>> ELSE out.evidence)

\* outs[i]: the outcome of the enrichment call for candidate i
trendRetrievalNode(state, query, e, tavilyOut, outs, t) ==
  LET c1 == IF \E i \in 1..Len(state.toolsToUse) : state.toolsToUse[i] = "tavily"
            THEN fetchFromTavily(query, state.scope, e, tavilyOut, t) ELSE <<>>
      c2 == IF \E i \in 1..Len(state.toolsToUse) : state.toolsToUse[i] = "reddit"
            THEN fetchFromReddit(query, state.scope, e, t) ELSE <<>>
      trendCandidates == c1 \o c2
      capped == IF Len(trendCandidates) > EnrichCap
                THEN SubSeq(trendCandidates, 1, EnrichCap) ELSE trendCandidates
  IN [trendCandidates |-> trendCandidates,
      enrichedTrends |-> [i \in 1..Len(capped) |-> EnrichOne(capped[i], outs[i])],
      currentStep |-> "trend_retrieval_complete"]

\* a variant that takes a score at the threshold for high engagement
ConfidenceOfInclusive(trend) ==
  LET f1 == IF trend.source = "tavily" THEN <<"High-quality web source">>
            ELSE IF trend.source = "reddit"
                 THEN IF (IF Has(trend, "score") THEN trend.score ELSE 0) >= RedditHighScore
                      THEN <<"High Reddit engagement">>
                      ELSE <<"Moderate Reddit engagement">>
                 ELSE <<>>
      evidenceCount == Len(trend.key_evidence)
      f2 == IF evidenceCount >= 2 THEN f1 \o <<"Multiple supporting sources">>
            ELSE IF evidenceCount = 1 THEN f1 \o <<"Single supporting source">>
            ELSE f1
      confidenceValue == IF evidenceCount >= 2 THEN "High"
                         ELSE IF evidenceCount = 1 THEN "Medium" ELSE "Low"
      joined == IF Len(f2) = 0 THEN ""
                ELSE IF Len(f2) = 1 THEN f2[1] ELSE f2[1] \o "; " \o f2[2]
  IN [confidence |-> confidenceValue,
      rationale |-> OrElse(joined, "Standard trend analysis")]

\* the rule-based score of one trend
ConfidenceOf(trend) ==
  LET f1 == IF trend.source = "tavily" THEN <<"High-quality web source">>
            ELSE IF trend.source = "reddit"
                 THEN IF (IF Has(trend, "score") THEN trend.score ELSE 0) > RedditHighScore
                      THEN <<"High Reddit engagement">>
                      ELSE <<"Moderate Reddit engagement">>
                 ELSE <<>>
      evidenceCount == Len(trend.key_evidence)
      f2 == IF evidenceCount >= 2 THEN f1 \o <<"Multiple supporting sources">>
            ELSE IF evidenceCount = 1 THEN f1 \o <<"Single supporting source">>
            ELSE f1
      confidenceValue == IF evidenceCount >= 2 THEN "High"
                         ELSE IF evidenceCount = 1 THEN "Medium" ELSE "Low"
      joined == IF Len(f2) = 0 THEN ""
                ELSE IF Len(f2) = 1 THEN f2[1] ELSE f2[1] \o "; " \o f2[2]
  IN [confidence |-> confidenceValue,
      rationale |-> OrElse(joined, "Standard trend analysis")]

RECURSIVE Dedupe(_, _)
\* Array.from(new Set(urls.filter(Boolean)))
Dedupe(urls, seen) ==
  IF urls = <<>> THEN <<>>
  ELSE IF ~Truthy(Head(urls)) \/ Head(urls) \in seen THEN Dedupe(Tail(urls), seen)
  ELSE <<Head(urls)>> \o Dedupe(Tail(urls), seen \cup {Head(urls)})

\* text: the report the model wrote; confidenceScores[i] is the entry trend_(i-1)
researchReportNode(state, text) ==
  LET topTrends == IF Len(state.enrichedTrends) > ReportCap
                   THEN SubSeq(state.enrichedTrends, 1, ReportCap) ELSE state.enrichedTrends
      confidenceScores == [i \in 1..Len(topTrends) |-> ConfidenceOf(topTrends[i])]
  IN [research |-> text,
      researchReport |-> text,
      sources |-> Dedupe([i \in 1..Len(topTrends) |-> topTrends[i].url], {}),
      trendingTopics |->
        [i \in 1..Len(topTrends) |->
           [topic |-> OrElse(Get(topTrends[i], "title"), ""),
            reason |-> OrElse(Get(topTrends[i], "why_it_matters"), ""),
            url |-> OrElse(Get(topTrends[i], "url"), ""),
            timestamp |-> OrElse(Get(topTrends[i], "published_date"), ""),
            confidence |-> OrElse(confidenceScores[i].confidence, "Medium")]],
      confidenceScores |-> confidenceScores,
      currentStep |-> "research_report_complete",
      needsApproval |-> TRUE]

\* sources.slice(0, 5).map(...) of the fast-mode fallbacks
FastTopics(urls, reason, t) ==
  [i \in 1..(IF Len(urls) > 5 THEN 5 ELSE Len(urls)) |->
     [topic |-> "Trend " \o ToString(i), reason |-> reason, url |-> urls[i],
      timestamp |-> ISO(t), confidence |-> "Medium"]]

\* x || [] for a field of the parsed object
FieldOr(obj, f) == IF Has(obj, f) THEN obj[f] ELSE <<>>

\* the research payload of runFastMode.  out.kind: "json" (the span with
\* "trending_topics" parses, to out.parsed), "nomatch", "badjson"; out.text
\* is the answer and out.urls the URLs the pattern finds in it
FastPayload(query, platformsText, out, t) ==
  LET parsed == out.kind = "json"
      report0 == IF parsed THEN OrElse(Get(out.parsed, "research_report"), out.text)
                 ELSE out.text
      sources == IF parsed THEN FieldOr(out.parsed, "sources") ELSE Dedupe(out.urls, {})
      topics0 == IF parsed THEN FieldOr(out.parsed, "trending_topics")
                 ELSE FastTopics(sources,
                        IF out.kind = "nomatch"
                        THEN "Relevant trend identified in research"
                        ELSE "Relevant trend from research", t)
      enrichedTrends == IF parsed THEN FieldOr(out.parsed, "enriched_trends") ELSE <<>>
      scores0 == IF parsed THEN FieldOr(out.parsed, "confidence_scores") ELSE <<>>
      researchReport ==
        IF Truthy(report0) THEN report0
        ELSE "# Research Report: " \o query \o "\n\nResearch generated for " \o query
             \o " targeting " \o platformsText \o "."
      trendingTopics ==
        IF topics0 # NotArray /\ Len(topics0) = 0
        THEN << [topic |-> "Relevant trend for " \o query,
                 reason |-> "Identified through research", url |-> "",
                 timestamp |-> ISO(t), confidence |-> "Medium"] >>
        ELSE topics0
      confidenceScores ==
        IF Len(scores0) = 0
        THEN [i \in 1..(IF trendingTopics = NotArray THEN 0 ELSE Len(trendingTopics)) |->
                [confidence |-> OrElse(Get(trendingTopics[i], "confidence"), "Medium"),
                 rationale |-> "Fast mode analysis"]]
        ELSE scores0
  IN [research |-> researchReport, researchReport |-> researchReport,
      sources |-> sources, trendingTopics |-> trendingTopics,
      enrichedTrends |-> enrichedTrends, confidenceScores |-> confidenceScores]

RECURSIVE Join(_, _)
\* platforms.join(sep)
Join(list, sep) ==
  IF list = <<>> THEN ""
  ELSE IF Len(list) = 1 THEN list[1]
  ELSE list[1] \o sep \o Join(Tail(list), sep)

\* the filters of continueAfterApproval on one parsed or split answer.
\* out.kind: "json" (the text parses to the array out.items), "notarray"
\* (it parses to something else), "lines" (it does not parse; out.items are
\* the lines of the text)
IdeasList(out) ==
  LET trimmed == MapSeq(out.items, Trim)
      long(idea) == Len(idea) > 10
      line(l) == /\ Len(l) > 0
                 /\ ~StartsWith(l, <<"#">>)
                 /\ ~StartsWith(l, Fence)
                 /\ l \notin {<<"[">>, <<"]">>, <<"{">>, <<"}">>}
  IN CASE out.kind = "json" -> SelectSeq(trimmed, long)
       [] out.kind = "lines" -> SelectSeq(SelectSeq(trimmed, line), long)
       [] OTHER -> <<>>

\* a variant without the slice
PlatformIdeasUncapped(out) ==
  LET keep(idea) == /\ Len(idea) > 10
                    /\ ~StartsWith(idea, Fence)
                    /\ idea # FenceJson /\ idea # Fence
  IN SelectSeq(IdeasList(out), keep)

\* ideas[platform] = ideasList.slice(0, 5).filter(...)
PlatformIdeas(out) ==
  LET ideasList == IdeasList(out)
      sliced == IF Len(ideasList) > IdeaCap THEN SubSeq(ideasList, 1, IdeaCap) ELSE ideasList
      keep(idea) == /\ Len(idea) > 10
                    /\ ~StartsWith(idea, Fence)
                    /\ idea # FenceJson /\ idea # Fence
  IN SelectSeq(sliced, keep)

(***************************************************************************)
(* The events that the generators yield                                    *)
(***************************************************************************)
StepEvent(step, message) == [type |-> "step", step |-> step, message |-> message]

PlanCompleteEvent(state) ==
  [type |-> "research_plan_complete", scope |-> state.scope,
   tools_to_use |-> state.toolsToUse,
   message |-> "Scope: " \o Get(state.scope, "time_window") \o ", "
               \o Get(state.scope, "region") \o ", " \o Get(state.scope, "domain")
               \o ". Tools: " \o Join(state.toolsToUse, ", ")]

CandidateEvent(candidate) ==
  [type |-> "trend_candidate",
   candidate |-> [title |-> candidate.title, source |-> candidate.source,
                  url |-> candidate.url]]

\* a variant that reports the number of candidates as the number enriched
RetrievalCompleteEventRaw(state) ==
  [type |-> "trend_retrieval_complete",
   candidates_count |-> Len(state.trendCandidates),
   enriched_count |-> Len(state.trendCandidates),
   message |-> "Found " \o ToString(Len(state.trendCandidates))
               \o " trend candidates, enriched " \o ToString(Len(state.trendCandidates))
               \o " trends"]

RetrievalCompleteEvent(state) ==
  [type |-> "trend_retrieval_complete",
   candidates_count |-> Len(state.trendCandidates),
   enriched_count |-> Len(state.enrichedTrends),
   message |-> "Found " \o ToString(Len(state.trendCandidates))
               \o " trend candidates, enriched " \o ToString(Len(state.enrichedTrends))
               \o " trends"]

ResearchCompleteEvent(state) ==
  [type |-> "research_complete", research |-> state.research,
   research_report |-> state.researchReport, sources |-> state.sources,
   trending_topics |-> state.trendingTopics, enriched_trends |-> state.enrichedTrends,
   confidence_scores |-> state.confidenceScores]

\* a variant that announces the checkpoint without the sources
ApprovalRequiredEventBare(state) ==
  [type |-> "approval_required",
   message |-> "Research complete. Waiting for your approval to proceed.",
   research |-> state.research,
   research_report |-> state.researchReport, sources |-> <<>>,
   trending_topics |-> state.trendingTopics, enriched_trends |-> state.enrichedTrends,
   confidence_scores |-> state.confidenceScores]

ApprovalRequiredEvent(state) ==
  [type |-> "approval_required",
   message |-> "Research complete. Waiting for your approval to proceed.",
   research |-> state.research,
   research_report |-> state.researchReport, sources |-> state.sources,
   trending_topics |-> state.trendingTopics, enriched_trends |-> state.enrichedTrends,
   confidence_scores |-> state.confidenceScores]

IdeaStreamEvent(platform, ideas) ==
  [type |-> "idea_stream", platform |-> platform, ideas |-> ideas]

CompleteEvent(ideas) == [type |-> "complete", ideas |-> ideas]

(***************************************************************************)
(* Runs.  runs[r] is one invocation of handleSubmit, handleApproval,       *)
(* generateIdeas or approveResearch: its arguments, where it stands (pc),  *)
(* the AgentState of its generator (st), the PendingApproval record it     *)
(* read (approvalData), the events its generator has yielded so far and    *)
(* the error it ended with.                                                *)
(***************************************************************************)
CurDB == DB(sessions, messages, pendingApprovals)

Commit(d) == /\ sessions' = d.s
             /\ messages' = d.m
             /\ pendingApprovals' = d.p

\* the clock between two steps: the environment stays and Date.now() is
\* later at the next step (every step awaits a call that leaves the process)
Tick == /\ env' = env
        /\ now' = now + 1

Running(r) == runs[r].pc \notin {"done", "failed"}

\* the isGenerating flag of the chat component of session s: set from the
\* start of handleSubmit or of an approve/refine handleApproval to its finally
IsGenerating(s) ==
  \E r \in 1..Len(runs) :
     /\ runs[r].ui /\ runs[r].sessionId = s
     /\ runs[r].kind \in {"generate", "approve", "refine"}
     /\ Running(r)

\* the status the component sees in its session query; Undefined: no session
SeenStatus(s) ==
  LET k == getSession(sessions, s) IN IF k = 0 THEN Undefined ELSE sessions[k].status

\* the approval panel is rendered (showApproval and approvalData are set
\* while the status is researching or waiting_approval)
PanelShown(s) == SeenStatus(s) \in {"researching", "waiting_approval"}

NewRun(kind, ui, s, query, platforms, mode, persona, refinement, pc) ==
  [kind |-> kind, ui |-> ui, sessionId |-> s, query |-> query,
   platforms |-> platforms, mode |-> mode, persona |-> persona,
   refinement |-> refinement, pc |-> pc, i |-> 1, st |-> InitialState,
   ideas |-> <<>>, approvalData |-> NoList, events |-> <<>>, error |-> "none"]

Fail(run, err) == [run EXCEPT !.pc = "failed", !.error = err]

\* run r yields event and the action projects it; run2 is the run after the
\* yield.  A throwing projection ends the action
Project(r, event, run2) ==
  LET d == handleStreamEvent(CurDB, runs[r].sessionId, event, now)
      run3 == [run2 EXCEPT !.events = Append(@, event)]
  IN IF d.ok
     THEN /\ Commit(d)
          /\ runs' = [runs EXCEPT ![r] = run3]
     ELSE /\ UNCHANGED <<sessions, messages, pendingApprovals>>
          /\ runs' = [runs EXCEPT ![r] = Fail(run3, "Session not found")]

Emit(r, event, pc2, st2, i2) ==
  Project(r, event, [runs[r] EXCEPT !.pc = pc2, !.st = st2, !.i = i2])

\* one mutation called by a handler or an action outside the event loop
Mutate(r, d, pc2) ==
  IF d.ok
  THEN /\ Commit(d)
       /\ runs' = [runs EXCEPT ![r].pc = pc2]
  ELSE /\ UNCHANGED <<sessions, messages, pendingApprovals>>
       /\ runs' = [runs EXCEPT ![r] = Fail(@, "Session not found")]

(***************************************************************************)
(* ChatInterface.handleSubmit and generateIdeas                            *)
(***************************************************************************)
\* handleSubmit up to its first mutation: the user message
HandleSubmit(s, query, platforms, mode, persona) ==
  /\ query # "" /\ ~IsGenerating(s)
  /\ SeenStatus(s) # "waiting_approval"
  /\ Commit(addMessage(CurDB, s, "user", query, Undefined, NoSeq, NoList, now))
  /\ runs' = Append(runs, NewRun("generate", TRUE, s, query, platforms, mode, persona,
                                 Undefined, "hs_createSession"))
  /\ Tick

\* handleSubmit: await createSession(...)
SubmitCreateSession(r) ==
  /\ runs[r].pc = "hs_createSession"
  /\ Mutate(r, createSession(CurDB, runs[r].sessionId, runs[r].query, runs[r].platforms),
            "gi_createSession")
  /\ Tick

\* generateIdeas called without the component
GenerateIdeas(s, query, platforms, mode, persona) ==
  /\ Commit(createSession(CurDB, s, query, platforms))
  /\ runs' = Append(runs, NewRun("generate", FALSE, s, query, platforms, mode, persona,
                                 Undefined, "begin"))
  /\ Tick

\* generateIdeas: "Store initial session"
GenerateCreateSession(r) ==
  /\ runs[r].pc = "gi_createSession"
  /\ Mutate(r, createSession(CurDB, runs[r].sessionId, runs[r].query, runs[r].platforms),
            "begin")
  /\ Tick

(***************************************************************************)
(* runStream and runFastMode, one yield at a time                          *)
(***************************************************************************)
\* new MarketingCopyAgent() and the first yield of runStream
Begin(r) ==
  /\ runs[r].pc = "begin"
  /\ IF ~env.openai
     THEN /\ runs' = [runs EXCEPT ![r] = Fail(@, "OPENAI_API_KEY environment variable is not set")]
          /\ UNCHANGED <<sessions, messages, pendingApprovals>>
     ELSE IF runs[r].mode = "fast"
     THEN Emit(r, StepEvent("fast_research", "Generating research report (Fast mode)..."),
               "fast", InitialState, 1)
     ELSE Emit(r, StepEvent("research_plan", "Clarifying research scope and selecting tools..."),
               "plan", InitialState, 1)
  /\ Tick

\* the model call of runFastMode, the parse and the yield of research_complete
FastResearch(r, out) ==
  /\ runs[r].pc = "fast"
  /\ IF out.kind = "throw"
     THEN /\ runs' = [runs EXCEPT ![r] = Fail(@, "llm")]
          /\ UNCHANGED <<sessions, messages, pendingApprovals>>
     ELSE LET st2 == Merge(runs[r].st,
                       FastPayload(runs[r].query, Join(runs[r].platforms, ", "), out, now))
          IN Emit(r, ResearchCompleteEvent(st2), "store1", st2, 1)
  /\ Tick

\* researchPlanNode and the yield of research_plan_complete
ResearchPlan(r, out) ==
  /\ runs[r].pc = "plan"
  /\ IF out.kind = "throw"
     THEN /\ runs' = [runs EXCEPT ![r] = Fail(@, "llm")]
          /\ UNCHANGED <<sessions, messages, pendingApprovals>>
     ELSE LET st2 == Merge(runs[r].st, researchPlanNode(runs[r].st, env, out))
          IN Emit(r, PlanCompleteEvent(st2), "retrieval_step", st2, 1)
  /\ Tick

\* the yield of step(trend_retrieval)
RetrievalStep(r) ==
  /\ runs[r].pc = "retrieval_step"
  /\ Emit(r, StepEvent("trend_retrieval", "Fetching trend candidates and enriching with sources..."),
          "retrieval", runs[r].st, 1)
  /\ Tick

\* the yield that follows i - 1 trend_candidate events
CandidateOrComplete(r, st2, i) ==
  IF i <= Len(st2.trendCandidates)
  THEN Emit(r, CandidateEvent(st2.trendCandidates[i]), "candidates", st2, i + 1)
  ELSE Emit(r, RetrievalCompleteEvent(st2), "report_step", st2, 1)

\* trendRetrievalNode and the first yield after it
TrendRetrieval(r, tavilyOut, outs) ==
  /\ runs[r].pc = "retrieval"
  /\ CandidateOrComplete(r,
       Merge(runs[r].st,
             trendRetrievalNode(runs[r].st, runs[r].query, env, tavilyOut, outs, now)), 1)
  /\ Tick

\* the next trend_candidate, or trend_retrieval_complete after the last
NextCandidate(r) ==
  /\ runs[r].pc = "candidates"
  /\ CandidateOrComplete(r, runs[r].st, runs[r].i)
  /\ Tick

\* the yield of step(research_report)
ReportStep(r) ==
  /\ runs[r].pc = "report_step"
  /\ Emit(r, StepEvent("research_report", "Synthesizing research report..."),
          "report", runs[r].st, 1)
  /\ Tick

\* graph.invoke(state): the three stages once more, on the state so far
GraphInvoke(state, query, e, planOut, tavilyOut, outs, text, t) ==
  LET s1 == Merge(state, researchPlanNode(state, e, planOut))
      s2 == Merge(s1, trendRetrievalNode(s1, query, e, tavilyOut, outs, t))
  IN Merge(s2, researchReportNode(s2, text))

\* researchReportNode, graph.invoke and the yield of research_complete.
\* text1: the report of the first synthesis ("throw": the call rejects); the
\* other outcomes are those of the stages inside graph.invoke
ResearchReport(r, text1, planOut, tavilyOut, outs, text2) ==
  /\ runs[r].pc = "report"
  /\ IF text1 = "throw" \/ planOut.kind = "throw" \/ text2 = "throw"
     THEN /\ runs' = [runs EXCEPT ![r] = Fail(@, "llm")]
          /\ UNCHANGED <<sessions, messages, pendingApprovals>>
     ELSE LET s1 == Merge(runs[r].st, researchReportNode(runs[r].st, text1))
              st2 == GraphInvoke(s1, runs[r].query, env, planOut, tavilyOut, outs, text2, now)
          IN Emit(r, ResearchCompleteEvent(st2), "store1", st2, 1)
  /\ Tick

\* the arguments of storePendingApproval in generateIdeas and in the
\* refine/restart branch of approveResearch
StoreArgs(run, event) ==
  [sessionId |-> run.sessionId,
   research |-> OrElse(event.research, event.research_report),
   researchReport |-> OrElse(event.research_report, event.research),
   sources |-> event.sources, trendingTopics |-> event.trending_topics,
   enrichedTrends |-> event.enriched_trends,
   confidenceScores |-> event.confidence_scores,
   scope |-> IF run.kind = "generate" \/ ~Has(run.approvalData, "scope")
             THEN DefaultScope ELSE run.approvalData.scope,
   platforms |-> run.platforms, originalQuery |-> run.query,
   persona |-> run.persona, mode |-> run.mode]

\* "Store pending approval when research completes", after research_complete
StoreAfterResearch(r) ==
  /\ runs[r].pc = "store1"
  /\ Mutate(r, storePendingApproval(CurDB, StoreArgs(runs[r], runs[r].events[Len(runs[r].events)])),
            "approval_required")
  /\ Tick

\* the yield of approval_required
ApprovalRequired(r) ==
  /\ runs[r].pc = "approval_required"
  /\ Emit(r, ApprovalRequiredEvent(runs[r].st), "store2", runs[r].st, 1)
  /\ Tick

\* the same store after approval_required; the generator then returns
StoreAfterApproval(r) ==
  /\ runs[r].pc = "store2"
  /\ Mutate(r, storePendingApproval(CurDB, StoreArgs(runs[r], runs[r].events[Len(runs[r].events)])),
            "done")
  /\ Tick

(***************************************************************************)
(* ChatInterface.handleApproval and approveResearch                        *)
(***************************************************************************)
\* the Approve button: enabled in the panel once the status is
\* waiting_approval; handleApproval('approve') up to its first mutation, the
\* eager status change
HandleApprove(s) ==
  /\ SeenStatus(s) = "waiting_approval" /\ ~IsGenerating(s)
  /\ Commit(updateSession(CurDB, s, [status |-> "generating"]))
  /\ runs' = Append(runs, NewRun("approve", TRUE, s, Undefined, <<>>, Undefined, Undefined,
                                 Undefined, "ar_get"))
  /\ Tick

\* ApprovalPanel.handleRefine (which ignores a blank text) and
\* handleApproval('refine', text) up to its first mutation, the user message
HandleRefine(s, refinement) ==
  /\ PanelShown(s) /\ ~IsGenerating(s)
  /\ refinement # ""
  /\ Commit(addMessage(CurDB, s, "user", "Refinement: " \o refinement, Undefined,
                       NoSeq, NoList, now))
  /\ runs' = Append(runs, NewRun("refine", TRUE, s, Undefined, <<>>, Undefined, Undefined,
                                 refinement, "ha_updateSession"))
  /\ Tick

\* handleApproval('refine'): "Reset status to researching to start fresh"
RefineUpdateSession(r) ==
  /\ runs[r].pc = "ha_updateSession"
  /\ Mutate(r, updateSession(CurDB, runs[r].sessionId, [status |-> "researching"]), "ar_get")
  /\ Tick

\* ApprovalPanel.handleRestart and handleApproval('restart', text) up to its
\* first mutation; the query of the reset is read from the session the
\* component holds
HandleRestart(s, refinement) ==
  /\ PanelShown(s) /\ ~IsGenerating(s)
  /\ Commit(deleteMessages(CurDB, s))
  /\ runs' = Append(runs, NewRun("restart", TRUE, s,
                                 OrElse(refinement, OrElse(sessions[getSession(sessions, s)].query, "")),
                                 <<>>, Undefined, Undefined, refinement, "ha_resetSession"))
  /\ Tick

\* handleApproval('restart'): resetSession, then return
RestartResetSession(r) ==
  /\ runs[r].pc = "ha_resetSession"
  /\ Mutate(r, resetSession(CurDB, runs[r].sessionId, runs[r].query), "done")
  /\ Tick

\* approveResearch called without the component
ApproveResearch(s, action, refinement) ==
  /\ runs' = Append(runs, NewRun(action, FALSE, s, Undefined, <<>>, Undefined, Undefined,
                                 refinement, "ar_get"))
  /\ UNCHANGED <<sessions, messages, pendingApprovals>>
  /\ Tick

\* a variant that separates the clause by a single line break
NewQuerySingleBreak(action, originalQuery, refinement) ==
  IF action = "refine" THEN originalQuery \o "\nRefinement: " \o refinement
  ELSE OrElse(refinement, originalQuery)

\* newQuery of the refine/restart branch
NewQuery(action, originalQuery, refinement) ==
  IF action = "refine" THEN originalQuery \o "\n\nRefinement: " \o refinement
  ELSE OrElse(refinement, originalQuery)

\* a variant without the validation of the refinement text
RefinementOptional(action, refinement) == FALSE

\* !args.refinement && args.action === "refine"
RefinementMissing(action, refinement) == ~Truthy(refinement) /\ action = "refine"

\* approveResearch from its start to the branch on args.action
ApproveResearchGet(r) ==
  /\ runs[r].pc = "ar_get"
  /\ LET k == getPendingApproval(pendingApprovals, runs[r].sessionId)
         run == runs[r]
     IN runs' = [runs EXCEPT ![r] =
          IF ~env.openai THEN Fail(run, "OPENAI_API_KEY environment variable is not set")
          ELSE IF k = 0 THEN Fail(run, "Session " \o run.sessionId \o " not found")
          ELSE LET approvalData == pendingApprovals[k] IN
               IF run.kind = "approve"
               THEN [run EXCEPT !.approvalData = approvalData,
                                !.platforms = approvalData.platforms, !.pc = "ar_update"]
               ELSE IF RefinementMissing(run.kind, run.refinement)
               THEN Fail(run, "Refinement text required")
               ELSE [run EXCEPT !.approvalData = approvalData,
                                !.query = NewQuery(run.kind, approvalData.originalQuery,
                                                   run.refinement),
                                !.platforms = approvalData.platforms,
                                !.mode = OrElse(Get(approvalData, "mode"), "deep"),
                                !.persona = Get(approvalData, "persona"),
                                !.pc = "begin"]]
  /\ UNCHANGED <<sessions, messages, pendingApprovals>>
  /\ Tick

\* "Mark as approved"
MarkApproved(r) ==
  /\ runs[r].pc = "ar_update"
  /\ Mutate(r, updatePendingApproval(CurDB, runs[r].sessionId, "true", Undefined), "ideas")
  /\ Tick

\* continueAfterApproval: the model call for platform i and the yield of
\* its idea_stream
IdeaStream(r, out) ==
  /\ runs[r].pc = "ideas"
  /\ runs[r].i <= Len(runs[r].platforms)
  /\ IF out.kind = "throw"
     THEN /\ runs' = [runs EXCEPT ![r] = Fail(@, "llm")]
          /\ UNCHANGED <<sessions, messages, pendingApprovals>>
     ELSE LET platform == runs[r].platforms[runs[r].i]
              ideas == PlatformIdeas(out)
          IN Project(r, IdeaStreamEvent(platform, ideas),
                     [runs[r] EXCEPT !.ideas = SetKey(@, platform, ideas), !.i = @ + 1])
  /\ Tick

\* continueAfterApproval: the yield of complete; the generator then returns
Complete(r) ==
  /\ runs[r].pc = "ideas"
  /\ runs[r].i > Len(runs[r].platforms)
  /\ Project(r, CompleteEvent(runs[r].ideas), [runs[r] EXCEPT !.pc = "done"])
  /\ Tick

\* the public mutation updateIdeas called by a client
UpdateIdeas(s, platform, ideas, status) ==
  /\ LET d == updateIdeas(CurDB, s, platform, ideas, status) IN
       /\ d.ok
       /\ Commit(d)
  /\ runs' = Append(runs, [NewRun("updateIdeas", FALSE, s, Undefined, <<platform>>, Undefined,
                                  Undefined, Undefined, "done")
                             EXCEPT !.ideas = SetKey(<<>>, platform, ideas)])
  /\ Tick

(***************************************************************************)
(* Outcomes of the calls that leave the program: the text-generation model *)
(* and the search API.                                                     *)
(***************************************************************************)
NoCreds == [openai |-> TRUE, tavily |-> FALSE, composioKey |-> FALSE, composioUser |-> FALSE]
NoKey == [NoCreds EXCEPT !.openai = FALSE]
TavilyOnly == [NoCreds EXCEPT !.tavily = TRUE]

Throws == [kind |-> "throw"]
NoMatch == [kind |-> "nomatch"]

TavilyResult(n) ==
  [title |-> "Result " \o ToString(n), content |-> "text",
   url |-> "https://news.example/" \o ToString(n), published_date |-> "2025-01-01"]

\* the same outcome for every enrichment call of one retrieval
EnrichAll(o) == [i \in 1..EnrichCap |-> o]

\* "idea number n": longer than every length threshold of the filters
Idea(n) == <<"i", "d", "e", "a", " ", "n", "u", "m", "b", "e", "r", " ", ToString(n)>>

\* "Idea A": passes the threshold of idea_stream only
IdeaA == <<"I", "d", "e", "a", " ", "A">>

(***************************************************************************)
(* Specification                                                           *)
(***************************************************************************)
InitIn(E) ==
  /\ env \in E
  /\ sessions = <<>>
  /\ messages = <<>>
  /\ pendingApprovals = <<>>
  /\ runs = <<>>
  /\ now = 2 * DayMs

Idle == \A r \in 1..Len(runs) : ~Running(r)

\* outcomes of the model call of runFastMode
FastOutcomes == {Throws, [kind |-> "badjson", text |-> "", urls |-> <<>>]}

\* outcomes of one model call of continueAfterApproval: two ideas, or seven
\* with a short one among them
IdeaOutcomes ==
  {Throws, [kind |-> "json", items |-> <<Idea(1), Idea(2)>>],
   [kind |-> "json", items |-> <<Idea(1), IdeaA, Idea(2), Idea(3), Idea(4), Idea(5), Idea(6)>>]}

\* outcomes of the scope call of researchPlanNode
PlanOutcomes == {Throws, NoMatch}

\* outcomes of the search request
TavilyOutcomes ==
  {[kind |-> "error"], [kind |-> "ok", results |-> <<TavilyResult(1), TavilyResult(2)>>]}

\* outcomes of the enrichment calls of one retrieval
EnrichOutcomes == {EnrichAll(NoMatch)}

\* outcomes of a synthesis call: a report, an answer without content, or
\* "throw" (the call rejects)
ReportOutcomes == {"# Research Report", "", "throw"}

(***************************************************************************)
(* Spec: clients call the backend actions and the updateIdeas mutation of  *)
(* one session concurrently, in fast mode.                                 *)
(***************************************************************************)
Init == InitIn({NoCreds, NoKey})

Next ==
  \/ /\ Len(runs) < MaxRuns
     /\ \E query \in Queries, platforms \in PlatformLists :
          GenerateIdeas("s1", query, platforms, "fast", Undefined)
  \/ /\ Len(runs) < MaxRuns
     /\ \E action \in {"approve", "refine", "restart"}, refinement \in Refinements :
          ApproveResearch("s1", action, refinement)
  \/ \E r \in 1..Len(runs) : Begin(r)
  \/ \E r \in 1..Len(runs), out \in FastOutcomes : FastResearch(r, out)
  \/ \E r \in 1..Len(runs) : StoreAfterResearch(r)
  \/ \E r \in 1..Len(runs) : ApprovalRequired(r)
  \/ \E r \in 1..Len(runs) : StoreAfterApproval(r)
  \/ \E r \in 1..Len(runs) : ApproveResearchGet(r)
  \/ \E r \in 1..Len(runs) : MarkApproved(r)
  \/ \E r \in 1..Len(runs), out \in {Throws, [kind |-> "json", items |-> <<Idea(1), Idea(2)>>]} :
       IdeaStream(r, out)
  \/ \E r \in 1..Len(runs) : Complete(r)
  \/ /\ Len(runs) < MaxRuns
     /\ \E status \in Statuses \cup {Undefined} :
          UpdateIdeas("s1", "LinkedIn", <<Idea(1)>>, status)

Spec == Init /\ [][Next]_vars

(***************************************************************************)
(* SpecSeq: one call at a time, from the component or from a client, in    *)
(* both modes.                                                             *)
(***************************************************************************)
InitSeq == InitIn({NoCreds, NoKey, TavilyOnly})

NextSeq ==
  \/ /\ Len(runs) < MaxRuns /\ Idle
     /\ \E query \in Queries, platforms \in PlatformLists, mode \in Modes :
          GenerateIdeas("s1", query, platforms, mode, Undefined)
  \/ /\ Len(runs) < MaxRuns /\ Idle
     /\ \E action \in {"approve", "refine", "restart"}, refinement \in Refinements :
          ApproveResearch("s1", action, refinement)
  \/ /\ Len(runs) < MaxRuns /\ Idle
     /\ \E query \in Queries, platforms \in PlatformLists, mode \in Modes :
          HandleSubmit("s1", query, platforms, mode, "founder")
  \/ /\ Len(runs) < MaxRuns /\ Idle
     /\ HandleApprove("s1")
  \/ /\ Len(runs) < MaxRuns /\ Idle
     /\ \E refinement \in Refinements : HandleRefine("s1", refinement)
  \/ /\ Len(runs) < MaxRuns /\ Idle
     /\ \E refinement \in Refinements : HandleRestart("s1", refinement)
  \/ \E r \in 1..Len(runs) : SubmitCreateSession(r)
  \/ \E r \in 1..Len(runs) : GenerateCreateSession(r)
  \/ \E r \in 1..Len(runs) : RefineUpdateSession(r)
  \/ \E r \in 1..Len(runs) : RestartResetSession(r)
  \/ \E r \in 1..Len(runs) : Begin(r)
  \/ \E r \in 1..Len(runs), out \in FastOutcomes : FastResearch(r, out)
  \/ \E r \in 1..Len(runs), out \in PlanOutcomes : ResearchPlan(r, out)
  \/ \E r \in 1..Len(runs) : RetrievalStep(r)
  \/ \E r \in 1..Len(runs), tavilyOut \in TavilyOutcomes, outs \in EnrichOutcomes :
       TrendRetrieval(r, tavilyOut, outs)
  \/ \E r \in 1..Len(runs) : NextCandidate(r)
  \/ \E r \in 1..Len(runs) : ReportStep(r)
  \/ \E r \in 1..Len(runs), text1 \in ReportOutcomes, planOut \in PlanOutcomes,
        tavilyOut \in TavilyOutcomes, outs \in EnrichOutcomes, text2 \in ReportOutcomes :
       ResearchReport(r, text1, planOut, tavilyOut, outs, text2)
  \/ \E r \in 1..Len(runs) : StoreAfterResearch(r)
  \/ \E r \in 1..Len(runs) : ApprovalRequired(r)
  \/ \E r \in 1..Len(runs) : StoreAfterApproval(r)
  \/ \E r \in 1..Len(runs) : ApproveResearchGet(r)
  \/ \E r \in 1..Len(runs) : MarkApproved(r)
  \/ \E r \in 1..Len(runs), out \in IdeaOutcomes : IdeaStream(r, out)
  \/ \E r \in 1..Len(runs) : Complete(r)

SpecSeq == InitSeq /\ [][NextSeq]_vars

(***************************************************************************)
(* SpecApi: clients call the public mutations directly, on two sessions.   *)
(* runs is the log of the calls that committed.                            *)
(***************************************************************************)
ApiSessions == {"s1", "s2"}

\* one committed call as the log keeps it
Call(op, s, args) == [kind |-> "call", op |-> op, sessionId |-> s, args |-> args, pc |-> "done"]

\* the events a client projects
ApiEvents ==
  {IdeaStreamEvent("LinkedIn", <<Idea(1)>>), IdeaStreamEvent("X", <<Idea(2)>>),
   CompleteEvent([LinkedIn |-> <<Idea(1)>>]),
   [type |-> "trend_retrieval_complete", candidates_count |-> 1, enriched_count |-> 1,
    enriched_trends |-> <<[title |-> "T", url |-> "u"]>>]}

\* the arguments of storePendingApproval: every optional field given, or
\* every optional field omitted
ApiApprovals(s) ==
  {[sessionId |-> s, research |-> "R", researchReport |-> "R", sources |-> <<"u">>,
    trendingTopics |-> <<>>, enrichedTrends |-> <<>>, confidenceScores |-> <<>>,
    scope |-> DefaultScope, platforms |-> <<"LinkedIn", "X">>, originalQuery |-> "q",
    mode |-> "fast"],
   [sessionId |-> s, research |-> Undefined, researchReport |-> Undefined, sources |-> NoSeq,
    trendingTopics |-> NoSeq, enrichedTrends |-> NoSeq, confidenceScores |-> NoList,
    scope |-> NoList, platforms |-> <<"X">>, originalQuery |-> "q2", mode |-> Undefined]}

\* a mutation that throws commits nothing and leaves no trace in the log
ClientCall(d, call) ==
  /\ Len(runs) < MaxCalls
  /\ d.ok
  /\ Commit(d)
  /\ runs' = Append(runs, call)
  /\ Tick

ClientCreateSession(s, query, platforms) ==
  ClientCall(createSession(CurDB, s, query, platforms),
             Call("createSession", s, [query |-> query, platforms |-> platforms]))

ClientUpdateIdeas(s, platform, ideas, status) ==
  ClientCall(updateIdeas(CurDB, s, platform, ideas, status),
             Call("updateIdeas", s, [platform |-> platform, ideas |-> ideas, status |-> status]))

ClientHandleStreamEvent(s, event) ==
  ClientCall(handleStreamEvent(CurDB, s, event, now), Call("handleStreamEvent", s, event))

ClientStorePendingApproval(a) ==
  ClientCall(storePendingApproval(CurDB, a), Call("storePendingApproval", a.sessionId, a))

ClientUpdatePendingApproval(s, approved, needsRefinement) ==
  ClientCall(updatePendingApproval(CurDB, s, approved, needsRefinement),
             Call("updatePendingApproval", s,
                  [approved |-> approved, needsRefinement |-> needsRefinement]))

ClientDeleteMessages(s) ==
  ClientCall(deleteMessages(CurDB, s), Call("deleteMessages", s, NoList))

ClientResetSession(s, query) ==
  ClientCall(resetSession(CurDB, s, query), Call("resetSession", s, [query |-> query]))

InitApi == InitIn({NoCreds})

NextApi ==
  \/ \E s \in ApiSessions, query \in Queries, platforms \in PlatformLists :
       ClientCreateSession(s, query, platforms)
  \/ \E s \in ApiSessions, status \in {Undefined, "researching", "complete"} :
       ClientUpdateIdeas(s, "LinkedIn", <<Idea(1)>>, status)
  \/ \E s \in ApiSessions, event \in ApiEvents : ClientHandleStreamEvent(s, event)
  \/ \E s \in ApiSessions : \E a \in ApiApprovals(s) : ClientStorePendingApproval(a)
  \/ \E s \in ApiSessions : ClientUpdatePendingApproval(s, "true", Undefined)
  \/ \E s \in ApiSessions : ClientDeleteMessages(s)
  \/ \E s \in ApiSessions : ClientResetSession(s, "q2")

SpecApi == InitApi /\ [][NextApi]_vars

(***************************************************************************)
(* SpecDeep: generateIdeas in deep mode, one call at a time, under every   *)
(* combination of the adapter credentials.                                 *)
(***************************************************************************)
InitDeep == InitIn({e \in Envs : e.openai})

NextDeep ==
  \/ /\ Len(runs) < MaxRuns /\ Idle
     /\ \E query \in Queries, platforms \in PlatformLists :
          GenerateIdeas("s1", query, platforms, "deep", Undefined)
  \/ \E r \in 1..Len(runs) : Begin(r)
  \/ \E r \in 1..Len(runs), out \in PlanOutcomes : ResearchPlan(r, out)
  \/ \E r \in 1..Len(runs) : RetrievalStep(r)
  \/ \E r \in 1..Len(runs), tavilyOut \in TavilyOutcomes, outs \in EnrichOutcomes :
       TrendRetrieval(r, tavilyOut, outs)
  \/ \E r \in 1..Len(runs) : NextCandidate(r)
  \/ \E r \in 1..Len(runs) : ReportStep(r)
  \/ \E r \in 1..Len(runs), text1 \in ReportOutcomes, planOut \in PlanOutcomes,
        tavilyOut \in TavilyOutcomes, outs \in EnrichOutcomes, text2 \in ReportOutcomes :
       ResearchReport(r, text1, planOut, tavilyOut, outs, text2)
  \/ \E r \in 1..Len(runs) : StoreAfterResearch(r)
  \/ \E r \in 1..Len(runs) : ApprovalRequired(r)
  \/ \E r \in 1..Len(runs) : StoreAfterApproval(r)

SpecDeep == InitDeep /\ [][NextDeep]_vars

(***************************************************************************)
(* SpecProj: a client projects events of every type on one session.        *)
(***************************************************************************)
\* the raw idea: a json fence, a line break, an opening bracket, the quoted
\* text Idea A, a comma and a line break
RawIdeaA == FenceJson \o <<"\n", "[", Quote>> \o IdeaA \o <<Quote, ",", "\n">>

\* the raw idea that is a lone comma
Comma == <<",">>

\* a trend_candidate as runStream yields it
Candidate(title, url) == CandidateEvent([title |-> title, source |-> "tavily", url |-> url])

\* the research state of a run whose report names one trend
ReportedState ==
  Merge(InitialState,
        [research |-> "R", researchReport |-> "R", sources |-> <<"u1">>,
         trendingTopics |-> << [topic |-> "T1", reason |-> "why", url |-> "u1",
                                timestamp |-> "2025-01-01", confidence |-> "Medium"] >>])

ProjEvents ==
  {StepEvent("research_plan", "Clarifying research scope and selecting tools..."),
   PlanCompleteEvent(InitialState),
   Candidate("T1", "u1"), Candidate("T2", "u2"), Candidate("T1", "u3"), Candidate("T3", "u1"),
   RetrievalCompleteEvent(InitialState),
   [type |-> "trend_retrieval_complete", candidates_count |-> 1, enriched_count |-> 1,
    enriched_trends |-> <<[title |-> "T", url |-> "u"]>>],
   [type |-> "research_report_partial", content |-> "R"],
   [type |-> "research_partial", research |-> "R"],
   ResearchCompleteEvent(ReportedState), ApprovalRequiredEvent(ReportedState),
   IdeaStreamEvent("LinkedIn", <<RawIdeaA, Comma>>), IdeaStreamEvent("LinkedIn", <<Idea(1)>>),
   CompleteEvent([LinkedIn |-> <<RawIdeaA, Comma>>]),
   CompleteEvent([LinkedIn |-> <<Idea(1)>>])}

InitProj == InitIn({NoCreds})

NextProj ==
  \/ \E query \in Queries, platforms \in PlatformLists :
       ClientCreateSession("s1", query, platforms)
  \/ \E event \in ProjEvents : ClientHandleStreamEvent("s1", event)

SpecProj == InitProj /\ [][NextProj]_vars

(***************************************************************************)
(* SpecOne: one call of generateIdeas on a new deployment, in either mode, *)
(* with every kind of answer of the model and of the search API.           *)
(***************************************************************************)
\* a topic as the prompt of runFastMode asks for it
FastTopic ==
  [topic |-> "AI agents", reason |-> "Adoption grows", url |-> "https://news.example/1",
   timestamp |-> "2025-01-01", confidence |-> "High"]

\* an answer of runFastMode that parses, to the object parsed
FastJson(parsed) ==
  [kind |-> "json", text |-> "{ ... trending_topics ... }", urls |-> <<>>, parsed |-> parsed]

\* the model call rejects; the answer is empty; it has no {...} span with
\* "trending_topics", with and without URLs; the span does not parse; it
\* parses to the object asked for, to an object with an empty report and
\* empty lists, to an object without the other fields, or to an object whose
\* trending_topics is an object
FastOutcomesAll ==
  {Throws,
   [kind |-> "nomatch", text |-> "", urls |-> <<>>],
   [kind |-> "nomatch", text |-> "Research notes", urls |-> <<>>],
   [kind |-> "nomatch", text |-> "See https://news.example/1",
    urls |-> <<"https://news.example/1", "https://news.example/1">>],
   [kind |-> "badjson", text |-> "{ trending_topics: [ }", urls |-> <<>>],
   FastJson([research_report |-> "# Report", sources |-> <<"https://news.example/1">>,
             trending_topics |-> <<FastTopic>>, enriched_trends |-> <<>>,
             confidence_scores |-> <<[confidence |-> "High", rationale |-> "Two sources"]>>]),
   FastJson([research_report |-> "", sources |-> <<>>, trending_topics |-> <<>>,
             enriched_trends |-> <<>>, confidence_scores |-> <<>>]),
   FastJson([trending_topics |-> <<FastTopic>>]),
   FastJson([trending_topics |-> NotArray])}

\* a response of the search API with more results than the enrichment takes
ManyResults == [i \in 1..(EnrichCap + 1) |-> TavilyResult(i)]

TavilyOutcomesAll == TavilyOutcomes \cup {[kind |-> "ok", results |-> ManyResults]}

\* an enrichment that parses, with the evidence list the model wrote
EnrichJson(evidence) ==
  [kind |-> "json", summary |-> "Summary", why |-> "Why it matters", evidence |-> evidence]

\* the enrichment calls reject, answer without a {...} span, answer with a
\* span that does not parse, or answer with no, one, two or an absent list
\* of evidence points
EnrichOutcomesAll ==
  {EnrichAll(o) : o \in {Throws, NoMatch, [kind |-> "badjson", text |-> "{summary"],
                         EnrichJson(<<>>), EnrichJson(<<"e1">>), EnrichJson(<<"e1", "e2">>),
                         EnrichJson(NoSeq)}}

InitOne == InitIn({e \in Envs : e.openai})

NextOne ==
  \/ /\ runs = <<>>
     /\ \E query \in Queries, platforms \in PlatformLists, mode \in Modes :
          GenerateIdeas("s1", query, platforms, mode, Undefined)
  \/ \E r \in 1..Len(runs) : Begin(r)
  \/ \E r \in 1..Len(runs), out \in FastOutcomesAll : FastResearch(r, out)
  \/ \E r \in 1..Len(runs), out \in PlanOutcomes : ResearchPlan(r, out)
  \/ \E r \in 1..Len(runs) : RetrievalStep(r)
  \/ \E r \in 1..Len(runs), tavilyOut \in TavilyOutcomesAll, outs \in EnrichOutcomesAll :
       TrendRetrieval(r, tavilyOut, outs)
  \/ \E r \in 1..Len(runs) : NextCandidate(r)
  \/ \E r \in 1..Len(runs) : ReportStep(r)
  \/ \E r \in 1..Len(runs), text1 \in ReportOutcomes, planOut \in PlanOutcomes,
        tavilyOut \in TavilyOutcomesAll, outs \in EnrichOutcomesAll, text2 \in ReportOutcomes :
       ResearchReport(r, text1, planOut, tavilyOut, outs, text2)
  \/ \E r \in 1..Len(runs) : StoreAfterResearch(r)
  \/ \E r \in 1..Len(runs) : ApprovalRequired(r)
  \/ \E r \in 1..Len(runs) : StoreAfterApproval(r)

SpecOne == InitOne /\ [][NextOne]_vars

(***************************************************************************)
(* SpecReport: researchReportNode applied to a state whose enriched trends *)
(* are drawn from a set of inputs.                                         *)
(***************************************************************************)
\* an enriched trend of an adapter, with the evidence the enrichment kept
TrendInput(source, evidence) ==
  [title |-> "T", content |-> "text", url |-> "u", published_date |-> "2025-01-01",
   source |-> source, summary |-> "S", why_it_matters |-> "W", key_evidence |-> evidence]

EvidenceInputs == {<<>>, <<"e1">>, <<"e1", "e2">>, <<"e1", "e2", "e3">>}

\* trends of the web search, and of the community search without a score
\* and with scores at, next to and above the threshold
TrendInputs ==
  {TrendInput(source, ev) : source \in {"tavily", "reddit"}, ev \in EvidenceInputs}
  \cup {Merge(TrendInput("reddit", ev), [score |-> score]) :
          ev \in EvidenceInputs, score \in {RedditHighScore, RedditHighScore + 1, 150}}

\* no trend, one, two, or one more than the report takes
EnrichedInputs ==
  {<<>>} \cup {<<a>> : a \in TrendInputs} \cup {<<a, b>> : a, b \in TrendInputs}
  \cup {[i \in 1..(ReportCap + 1) |-> a] : a \in TrendInputs}

InitReport ==
  /\ env = NoCreds
  /\ sessions = <<>>
  /\ messages = <<>>
  /\ pendingApprovals = <<>>
  /\ \E l \in EnrichedInputs :
       runs = << [NewRun("generate", FALSE, "s1", "q", <<"LinkedIn", "X">>, "deep", Undefined,
                         Undefined, "report")
                    EXCEPT !.st = Merge(InitialState, [enrichedTrends |-> l])] >>
  /\ now = 2 * DayMs

\* state = { ...state, ...reportResult }
ReportNode(r, text) ==
  /\ runs[r].pc = "report" /\ runs[r].st.currentStep # "research_report_complete"
  /\ runs' = [runs EXCEPT ![r].st = Merge(@, researchReportNode(@, text))]
  /\ UNCHANGED <<sessions, messages, pendingApprovals>>
  /\ Tick

NextReport == \E r \in 1..Len(runs), text \in ReportOutcomes \ {"throw"} : ReportNode(r, text)

SpecReport == InitReport /\ [][NextReport]_vars

(***************************************************************************)
(* SpecRestart: the Restart button of the component is used while calls of *)
(* generateIdeas made by clients run, in fast mode, on one session.        *)
(***************************************************************************)
InitRestart == InitIn({NoCreds})

NextRestart ==
  \/ /\ Len(runs) < MaxRuns
     /\ \E query \in Queries, platforms \in PlatformLists :
          GenerateIdeas("s1", query, platforms, "fast", Undefined)
  \/ /\ Len(runs) < MaxRuns
     /\ \E refinement \in Refinements : HandleRestart("s1", refinement)
  \/ \E r \in 1..Len(runs) : RestartResetSession(r)
  \/ \E r \in 1..Len(runs) : Begin(r)
  \/ \E r \in 1..Len(runs), out \in FastOutcomes : FastResearch(r, out)
  \/ \E r \in 1..Len(runs) : StoreAfterResearch(r)
  \/ \E r \in 1..Len(runs) : ApprovalRequired(r)
  \/ \E r \in 1..Len(runs) : StoreAfterApproval(r)

SpecRestart == InitRestart /\ [][NextRestart]_vars

(***************************************************************************)
(* SpecReuse: after one call of generateIdeas in fast mode, clients call   *)
(* approveResearch('approve') and the Restart button is used, one call at  *)
(* a time.                                                                 *)
(***************************************************************************)
InitReuse == InitIn({NoCreds})

NextReuse ==
  \/ /\ runs = <<>>
     /\ \E query \in Queries, platforms \in PlatformLists :
          GenerateIdeas("s1", query, platforms, "fast", Undefined)
  \/ /\ runs # <<>> /\ Len(runs) < MaxRuns + 2 /\ Idle
     /\ ApproveResearch("s1", "approve", Undefined)
  \/ /\ runs # <<>> /\ Len(runs) < MaxRuns + 2 /\ Idle
     /\ \E refinement \in Refinements : HandleRestart("s1", refinement)
  \/ \E r \in 1..Len(runs) : RestartResetSession(r)
  \/ \E r \in 1..Len(runs) : Begin(r)
  \/ \E r \in 1..Len(runs), out \in FastOutcomes : FastResearch(r, out)
  \/ \E r \in 1..Len(runs) : StoreAfterResearch(r)
  \/ \E r \in 1..Len(runs) : ApprovalRequired(r)
  \/ \E r \in 1..Len(runs) : StoreAfterApproval(r)
  \/ \E r \in 1..Len(runs) : ApproveResearchGet(r)
  \/ \E r \in 1..Len(runs) : MarkApproved(r)
  \/ \E r \in 1..Len(runs), out \in {Throws, [kind |-> "json", items |-> <<Idea(1), Idea(2)>>]} :
       IdeaStream(r, out)
  \/ \E r \in 1..Len(runs) : Complete(r)

SpecReuse == InitReuse /\ [][NextReuse]_vars

(***************************************************************************)
(* Properties                                                              *)
(***************************************************************************)
\* the run started a research pipeline (runStream)
IsResearchRun(run) == run.kind \in {"generate", "refine", "restart"} /\ ~(run.ui /\ run.kind = "restart")

LastEvent(run) == run.events[Len(run.events)]

\* the research payload of a research_complete or approval_required event
Payload(e) ==
  <<e.research, e.research_report, e.sources, e.trending_topics, e.enriched_trends,
    e.confidence_scores>>

IsPrefix(a, b) == Len(a) <= Len(b) /\ a = SubSeq(b, 1, Len(a))

\* the document of session s
Session(s) == sessions[getSession(sessions, s)]

C2_NoIdeasBeforeCheckpoint ==
  /\ \A r \in 1..Len(runs) :
       IsResearchRun(runs[r]) =>
         /\ \A j \in 1..Len(runs[r].events) :
              runs[r].events[j].type \notin {"idea_stream", "complete"}
         /\ runs[r].pc = "done" => LastEvent(runs[r]).type = "approval_required"
  /\ \A r \in 1..Len(runs) :
       \A j \in 1..Len(runs[r].events) :
         runs[r].events[j].type \in {"idea_stream", "complete"} => runs[r].kind = "approve"
  /\ \A i \in 1..Len(messages) :
       messages[i].type = "idea" =>
         \E j \in 1..(i - 1), k \in 1..(i - 1) :
           /\ j < k
           /\ messages[j].sessionId = messages[i].sessionId
           /\ messages[k].sessionId = messages[i].sessionId
           /\ messages[j].type = "research"
           /\ Get(messages[j].metadata, "type") = "research_complete"
           /\ messages[k].type = "approval"

\* the order researching < waiting_approval < generating < complete
Rank(status) ==
  CASE status = "researching" -> 1
    [] status = "waiting_approval" -> 2
    [] status = "generating" -> 3
    [] status = "complete" -> 4

\* C3 (as claimed): while the session has seen one generateIdeas run,
\* approve decisions and updateIdeas calls only (no refine, no restart, no
\* reset, no second run),
\* no step moves the status of a session backward in the order
\* researching < waiting_approval < generating < complete.
C3_StatusNeverMovesBackward ==
  [][(/\ \A r \in 1..Len(runs') : runs'[r].kind \in {"generate", "approve", "updateIdeas"}
      /\ Cardinality({r \in 1..Len(runs') : runs'[r].kind = "generate"}) <= 1)
     => \A k \in 1..Len(sessions) :
          Rank(sessions'[k].status) >= Rank(sessions[k].status)]_vars

\* the restart of run r has been carried out: the component's handler has
\* returned, or approveResearch has accepted the decision and is about to
\* start the fresh run
RestartCarriedOut(r) ==
  /\ runs[r].kind = "restart" /\ r = Len(runs)
  /\ IF runs[r].ui THEN runs[r].pc = "done" ELSE runs[r].pc = "begin"

\* C4 (as claimed): once a restart has been carried out, the session has no
\* research, sources, trendingTopics or ideas, its status is researching,
\* its sessionId is the same and its query is the text supplied with the
\* restart, or the previous query when none was supplied.
C4_RestartResets ==
  \A r \in 1..Len(runs) :
    RestartCarriedOut(r) =>
      LET session == Session(runs[r].sessionId) IN
      /\ session.research = Undefined
      /\ session.sources = NoSeq /\ session.trendingTopics = NoSeq
      /\ session.ideas = NoList
      /\ session.status = "researching"
      /\ session.sessionId = runs[r].sessionId
      /\ session.query = runs[r].query

\* C5: right after the projection of an idea_stream event for platform P,
\* projecting the same event once more leaves ideas[P] as it is: the list
\* of the platform is replaced by the cleaned list of the event.
C5_IdeaStreamIdempotent ==
  \A r \in 1..Len(runs) :
    (/\ r = Len(runs) /\ runs[r].pc = "ideas" /\ Len(runs[r].events) > 0
     /\ LastEvent(runs[r]).type = "idea_stream") =>
      LET e == LastEvent(runs[r])
          k == getSession(sessions, runs[r].sessionId)
          twice == handleStreamEvent(CurDB, runs[r].sessionId, e, now)
      IN /\ twice.ok
         /\ twice.s[k].ideas[e.platform] = sessions[k].ideas[e.platform]
         /\ sessions[k].ideas[e.platform] = SanitizeStream(e.ideas)

\* an idea_stream with several ideas has just been projected
C5_Witness ==
  \E r \in 1..Len(runs) :
    /\ r = Len(runs) /\ runs[r].pc = "ideas" /\ Len(runs[r].events) > 0
    /\ LastEvent(runs[r]).type = "idea_stream"
    /\ Len(Session(runs[r].sessionId).ideas[LastEvent(runs[r]).platform]) >= 2

\* an event by its type, a step event with the name of its step
Label(e) == IF e.type = "step" THEN "step(" \o e.step \o ")" ELSE e.type

Labels(events) == [j \in 1..Len(events) |-> Label(events[j])]

\* no credentials of the search adapters are configured
NoAdapterCredentials == ~env.tavily /\ ~(env.composioKey /\ env.composioUser)

\* a deep run started by generateIdeas
IsDeepStart(run) == run.kind = "generate" /\ run.mode = "deep" /\ run.pc # "hs_createSession"
                    /\ run.pc # "gi_createSession"

\* the generator of the run has returned
Returned(run) == run.pc \in {"store2", "done"}

ScenarioAClaimed ==
  <<"step(research_plan)", "research_plan_complete", "step(trend_retrieval)",
    "trend_candidate", "trend_retrieval_complete", "step(research_report)",
    "research_complete", "approval_required">>

ScenarioA ==
  <<"step(research_plan)", "research_plan_complete", "step(trend_retrieval)",
    "trend_candidate", "trend_candidate", "trend_retrieval_complete",
    "step(research_report)", "research_complete", "approval_required">>

\* C6 (as claimed): a deep run started with no adapter credentials has
\* yielded, when its generator returns, exactly step(research_plan),
\* research_plan_complete, step(trend_retrieval), one trend_candidate,
\* trend_retrieval_complete, step(research_report), research_complete,
\* approval_required.
C6_ScenarioAOneCandidate ==
  \A r \in 1..Len(runs) :
    IsDeepStart(runs[r]) /\ NoAdapterCredentials /\ Returned(runs[r]) =>
      Labels(runs[r].events) = ScenarioAClaimed

\* C6 (amended): a deep run started with no adapter credentials yields
\* step(research_plan), research_plan_complete, step(trend_retrieval), two
\* simulated trend_candidate events (the one of the search adapter, then the
\* one of the community adapter), trend_retrieval_complete,
\* step(research_report), research_complete, approval_required: at every
\* moment the events yielded are a prefix of this sequence, and the whole of
\* it once the generator has returned.
C6_ScenarioATwoCandidates ==
  \A r \in 1..Len(runs) :
    IsDeepStart(runs[r]) /\ NoAdapterCredentials =>
      /\ IsPrefix(Labels(runs[r].events), ScenarioA)
      /\ Returned(runs[r]) => Labels(runs[r].events) = ScenarioA
      /\ Len(runs[r].events) >= 5 =>
           /\ runs[r].events[4].candidate.url = "https://example.com/trend1"
           /\ runs[r].events[4].candidate.source = "tavily"
           /\ runs[r].events[5].candidate.url = "https://reddit.com/r/technology/example"
           /\ runs[r].events[5].candidate.source = "reddit"

\* a deep run without adapter credentials has returned
C6_Witness ==
  \E r \in 1..Len(runs) :
    IsDeepStart(runs[r]) /\ NoAdapterCredentials /\ runs[r].pc = "done"
    /\ Len(runs[r].events) = Len(ScenarioA)

\* C7: an approve decision that found a PendingApproval yields one
\* idea_stream per stored platform, in the stored order, and then one
\* complete and nothing else (a prefix of that while it runs or when a model
\* call rejects); once it has returned, the status of the session is
\* complete and the keys of its ideas are the stored platforms, each with at
\* most 5 strings.
C7_ScenarioB ==
  \A r \in 1..Len(runs) :
    runs[r].kind = "approve" /\ runs[r].approvalData # NoList =>
      LET P == runs[r].approvalData.platforms
          ev == runs[r].events
          session == Session(runs[r].sessionId)
      IN /\ Len(ev) <= Len(P) + 1
         /\ \A j \in 1..Len(ev) :
              IF j <= Len(P)
              THEN ev[j].type = "idea_stream" /\ ev[j].platform = P[j]
              ELSE ev[j].type = "complete"
         /\ runs[r].pc = "done" => Len(ev) = Len(P) + 1
         /\ runs[r].pc = "done" /\ r = Len(runs) =>
              /\ session.status = "complete"
              /\ DOMAIN session.ideas = Range(P)
              /\ \A p \in Range(P) : Len(session.ideas[p]) <= 5

\* an approve decision has returned on a session whose model answered with
\* more ideas than are kept
C7_Witness ==
  \E r \in 1..Len(runs) :
    /\ runs[r].kind = "approve" /\ runs[r].pc = "done" /\ r = Len(runs)
    /\ Len(runs[r].events) = 3
    /\ Len(Session(runs[r].sessionId).ideas["LinkedIn"]) = 5
    /\ Len(Session(runs[r].sessionId).ideas["X"]) = 2

\* approveResearch has accepted the refine decision of the run
RefineAccepted(run) == run.kind = "refine" /\ run.approvalData # NoList

\* C8 (as claimed): the query of the run that a refine decision with text R
\* starts is originalQuery, a line break, "Refinement: " and R.
C8_RefineQuerySingleBreak ==
  \A r \in 1..Len(runs) :
    RefineAccepted(runs[r]) =>
      runs[r].query = runs[r].approvalData.originalQuery \o "\nRefinement: "
                      \o runs[r].refinement

\* C8 (amended): a refine decision with non-empty text R on a session with a
\* PendingApproval starts a new full run, in the stored mode and for the
\* stored platforms, whose query is originalQuery, an empty line (two line
\* breaks), "Refinement: " and R, originalQuery being the query of the
\* PendingApproval; the run ends with research_complete and
\* approval_required and leaves that query in the PendingApproval.
C8_RefineQuery ==
  \A r \in 1..Len(runs) :
    RefineAccepted(runs[r]) =>
      /\ Truthy(runs[r].refinement)
      /\ runs[r].query = runs[r].approvalData.originalQuery \o "\n\nRefinement: "
                         \o runs[r].refinement
      /\ runs[r].mode = runs[r].approvalData.mode
      /\ runs[r].platforms = runs[r].approvalData.platforms
      /\ Len(runs[r].events) > 0 =>
           Label(runs[r].events[1]) \in {"step(research_plan)", "step(fast_research)"}
      /\ runs[r].pc = "done" =>
           /\ LastEvent(runs[r]).type = "approval_required"
           /\ runs[r].events[Len(runs[r].events) - 1].type = "research_complete"
      /\ runs[r].pc = "done" /\ r = Len(runs) =>
           pendingApprovals[getPendingApproval(pendingApprovals, runs[r].sessionId)]
             .originalQuery = runs[r].query

\* a refine decision with text "r" has run to its end
C8_Witness ==
  \E r \in 1..Len(runs) :
    /\ RefineAccepted(runs[r]) /\ runs[r].pc = "done" /\ runs[r].refinement = "r"
    /\ runs[r].query = "q\n\nRefinement: r"

\* run r, a decision, takes a step (its first one included)
DecisionStep(r) ==
  /\ runs'[r].kind \in {"approve", "refine", "restart"}
  /\ r > Len(runs) \/ runs'[r] # runs[r]

\* C9 (as claimed): a step of a decision (approve, refine or restart) taken
\* while the session has no PendingApproval changes no session, message or
\* approval record, and the decision ends with the not-found error.
C9_DecisionWithoutApprovalMutatesNothing ==
  [][\A r \in 1..Len(runs') :
       (/\ DecisionStep(r)
        /\ getPendingApproval(pendingApprovals, runs'[r].sessionId) = 0
        /\ env.openai)
       => /\ UNCHANGED <<sessions, messages, pendingApprovals>>
          /\ runs'[r].pc \in {"ar_get", "failed"}
          /\ runs'[r].pc = "failed" =>
               runs'[r].error = "Session " \o runs'[r].sessionId \o " not found"]_vars

\* C10: a refine decision with missing or empty text changes no session,
\* message or approval record at any of its steps and starts no run (it
\* yields no event and never gets past the validation); with the model key
\* set and a PendingApproval stored it ends with "Refinement text required".
C10_RefineWithoutTextRejected ==
  [][\A r \in 1..Len(runs') :
       (/\ runs'[r].kind = "refine" /\ ~Truthy(runs'[r].refinement))
       => /\ (r > Len(runs) \/ runs'[r] # runs[r]) =>
               UNCHANGED <<sessions, messages, pendingApprovals>>
          /\ runs'[r].events = <<>>
          /\ runs'[r].pc \in {"ar_get", "failed"}
          /\ (/\ r <= Len(runs) /\ runs[r].pc = "ar_get" /\ runs'[r].pc = "failed"
              /\ env.openai
              /\ getPendingApproval(pendingApprovals, runs'[r].sessionId) # 0) =>
               runs'[r].error = "Refinement text required"]_vars

\* a refine decision without text has been rejected on a session that has a
\* PendingApproval
C10_Witness ==
  \E r \in 1..Len(runs) :
    /\ runs[r].kind = "refine" /\ runs[r].refinement = ""
    /\ runs[r].pc = "failed" /\ runs[r].error = "Refinement text required"
    /\ getPendingApproval(pendingApprovals, runs[r].sessionId) # 0

\* the step is a call of a client, kept in the log as its last entry
IsCall == Len(runs') = Len(runs) + 1 /\ runs'[Len(runs')].kind = "call"

TheCall == runs'[Len(runs')]

\* the call projects an event of the given type
ProjectsEvent(call, type) == call.op = "handleStreamEvent" /\ call.args.type = type

\* C11: while the status of a session is complete, the projection of an
\* idea_stream event and a call of updateIdeas, with any status argument or
\* with none, leave the status complete.
C11_CompleteGuard ==
  [][(/\ IsCall
      /\ TheCall.op = "updateIdeas" \/ ProjectsEvent(TheCall, "idea_stream"))
     => \A k \in 1..Len(sessions) :
          (sessions[k].sessionId = TheCall.sessionId /\ sessions[k].status = "complete")
          => sessions'[k].status = "complete"]_vars

\* a session was completed, then an idea_stream was projected on it and
\* updateIdeas was called on it with the status researching
C11_Witness ==
  /\ Len(runs) = 4
  /\ \A r \in 1..4 : runs[r].kind = "call" /\ runs[r].sessionId = "s1"
  /\ runs[1].op = "createSession"
  /\ ProjectsEvent(runs[2], "complete")
  /\ ProjectsEvent(runs[3], "idea_stream")
  /\ runs[4].op = "updateIdeas" /\ runs[4].args.status = "researching"
  /\ Session("s1").status = "complete"

\* C12: the projection of an idea_stream event for platform P changes, in
\* the ideas of the session, the list of P only: every other platform keeps
\* its list and no other platform appears; the ideas of every other session
\* stay as they were.
C12_IdeaStreamAdditive ==
  [][(IsCall /\ ProjectsEvent(TheCall, "idea_stream"))
     => \A k \in 1..Len(sessions) :
          LET before == MapOr(sessions[k].ideas)
              after == MapOr(sessions'[k].ideas)
          IN IF k = getSession(sessions, TheCall.sessionId)
             THEN /\ DOMAIN after = DOMAIN before \cup {TheCall.args.platform}
                  /\ \A Q \in DOMAIN before \ {TheCall.args.platform} : after[Q] = before[Q]
             ELSE sessions'[k] = sessions[k]]_vars

\* the ideas of LinkedIn, then those of X, were projected on a session
C12_Witness ==
  /\ Len(runs) >= 3
  /\ \A r \in 1..3 : runs[r].kind = "call" /\ runs[r].sessionId = "s1"
  /\ runs[1].op = "createSession"
  /\ ProjectsEvent(runs[2], "idea_stream") /\ runs[2].args.platform = "LinkedIn"
  /\ ProjectsEvent(runs[3], "idea_stream") /\ runs[3].args.platform = "X"
  /\ DOMAIN Session("s1").ideas = {"LinkedIn", "X"}
  /\ Session("s1").ideas["LinkedIn"] = <<Idea(1)>>

\* run r yields an event at this step and its projection commits
Yields(r) ==
  /\ r <= Len(runs) /\ r <= Len(runs')
  /\ Len(runs'[r].events) = Len(runs[r].events) + 1
  /\ runs'[r].pc # "failed"

\* C13: the projection of research_complete or of approval_required leaves
\* the session with the status waiting_approval and with the research, the
\* sources and the trending_topics of the event; when a run has been
\* projected to its end the status is waiting_approval.
C13_ResearchProjected ==
  [][\A r \in 1..Len(runs) :
       /\ (Yields(r) /\ LastEvent(runs'[r]).type \in {"research_complete", "approval_required"})
          => LET e == LastEvent(runs'[r])
                 session == sessions'[getSession(sessions', runs'[r].sessionId)]
             IN /\ session.status = "waiting_approval"
                /\ session.research = e.research
                /\ session.sources = e.sources
                /\ session.trendingTopics = e.trending_topics
       /\ (IsResearchRun(runs'[r]) /\ runs[r].pc # "done" /\ runs'[r].pc = "done")
          => sessions'[getSession(sessions', runs'[r].sessionId)].status = "waiting_approval"]_vars

\* a deep run has been projected to its end on a session that shows the
\* research and the topics of its last event
C13_Witness ==
  \E r \in 1..Len(runs) :
    /\ IsResearchRun(runs[r]) /\ runs[r].mode = "deep" /\ runs[r].pc = "done" /\ r = Len(runs)
    /\ LastEvent(runs[r]).type = "approval_required"
    /\ Session(runs[r].sessionId).status = "waiting_approval"
    /\ Session(runs[r].sessionId).research = LastEvent(runs[r]).research
    /\ Session(runs[r].sessionId).trendingTopics = LastEvent(runs[r]).trending_topics
    /\ Len(LastEvent(runs[r]).trending_topics) > 0

\* C14 (as claimed): when the run that a refine or restart decision starts
\* yields its first event, the status of the session is already researching,
\* whatever it was before the decision; a restart that starts no run leaves
\* the status researching.
C14_DecisionBackToResearching ==
  [][\A r \in 1..Len(runs) :
       /\ (/\ runs[r].kind \in {"refine", "restart"}
           /\ runs[r].events = <<>> /\ runs'[r].events # <<>>)
          => sessions[getSession(sessions, runs[r].sessionId)].status = "researching"
       /\ (/\ runs[r].kind = "restart" /\ runs[r].ui
           /\ runs[r].pc # "done" /\ runs'[r].pc = "done")
          => sessions'[getSession(sessions', runs[r].sessionId)].status = "researching"]_vars

\* the restart of run r is carried out at this step
RestartDone(r) ==
  /\ runs[r].kind = "restart"
  /\ IF runs[r].ui THEN runs[r].pc # "done" /\ runs'[r].pc = "done"
     ELSE runs[r].pc # "begin" /\ runs'[r].pc = "begin"

\* C15 (as claimed): the messages written before a step are all still in the
\* log after it, in their order, unless the step belongs to a restart (so a
\* refine removes none); a restart leaves no message of its session in the
\* log and removes no message of another session.
C15_TranscriptOnRefineAndRestart ==
  [][/\ (~IsPrefix(messages, messages'))
        => \E r \in 1..Len(runs') :
             runs'[r].kind = "restart" /\ (r > Len(runs) \/ runs'[r] # runs[r])
     /\ \A r \in 1..Len(runs) :
          RestartDone(r) => getMessages(messages', runs[r].sessionId) = <<>>
     /\ \A r \in 1..Len(runs') :
          (runs'[r].kind = "restart" /\ (r > Len(runs) \/ runs'[r] # runs[r])) =>
            SelectSeq(messages', LAMBDA x : x.sessionId # runs'[r].sessionId)
              = SelectSeq(messages, LAMBDA x : x.sessionId # runs'[r].sessionId)]_vars

\* C16: after a call of storePendingApproval or of updatePendingApproval no
\* session has more than one PendingApproval, and after a call of
\* storePendingApproval the record of the session holds, in every content
\* field, the value given in that call (an omitted field is absent, whatever
\* the record held before), with approved = false and needsRefinement =
\* false.
C16_OnePendingApprovalFullyReplaced ==
  [][(IsCall /\ TheCall.op \in {"storePendingApproval", "updatePendingApproval"})
     => /\ \A s \in ApiSessions :
             Cardinality({k \in 1..Len(pendingApprovals') :
                            pendingApprovals'[k].sessionId = s}) <= 1
        /\ TheCall.op = "storePendingApproval"
           => LET a == TheCall.args
                  rec == pendingApprovals'[getPendingApproval(pendingApprovals', a.sessionId)]
              IN /\ \A f \in DOMAIN a : rec[f] = a[f]
                 /\ rec.approved = "false" /\ rec.needsRefinement = "false"]_vars

\* a record stored with every field and approved was stored again with the
\* optional fields omitted
C16_Witness ==
  /\ Len(runs) >= 3
  /\ \A r \in 1..3 : runs[r].kind = "call" /\ runs[r].sessionId = "s1"
  /\ runs[1].op = "storePendingApproval" /\ runs[1].args.research = "R"
  /\ runs[2].op = "updatePendingApproval"
  /\ runs[3].op = "storePendingApproval" /\ runs[3].args.research = Undefined
  /\ Len(pendingApprovals) = 1
  /\ pendingApprovals[1].research = Undefined /\ pendingApprovals[1].sources = NoSeq
  /\ pendingApprovals[1].approved = "false"

\* the step of run r that marks the PendingApproval of its session approved
ApprovedStep(r) ==
  /\ runs[r].kind = "approve"
  /\ runs[r].pc = "ar_update" /\ runs'[r].pc = "ideas"

\* C17: the step of an approve decision that marks the record sets approved =
\* true on the PendingApproval of the session, keeps the record in its place
\* with the same research, sources, platforms, originalQuery and mode; no
\* step removes the PendingApproval of a session, and a decision never ends
\* with "Session ... not found" when its session had a PendingApproval.
C17_ApproveKeepsRecord ==
  [][/\ \A r \in 1..Len(runs) :
          ApprovedStep(r) =>
            LET k == getPendingApproval(pendingApprovals, runs[r].sessionId) IN
            /\ k # 0
            /\ getPendingApproval(pendingApprovals', runs[r].sessionId) = k
            /\ Len(pendingApprovals') = Len(pendingApprovals)
            /\ pendingApprovals'[k].approved = "true"
            /\ \A f \in {"research", "sources", "platforms", "originalQuery", "mode"} :
                 pendingApprovals'[k][f] = pendingApprovals[k][f]
     /\ \A k \in 1..Len(pendingApprovals) :
          getPendingApproval(pendingApprovals', pendingApprovals[k].sessionId) # 0
     /\ \A r \in 1..Len(runs) :
          (/\ runs[r].pc = "ar_get" /\ runs'[r].pc = "failed"
           /\ getPendingApproval(pendingApprovals, runs[r].sessionId) # 0)
          => runs'[r].error # "Session " \o runs[r].sessionId \o " not found"]_vars

\* an approve decision has marked the record of its session, which is still
\* stored
C17_Witness ==
  \E r \in 1..Len(runs) :
    /\ runs[r].kind = "approve" /\ runs[r].pc \in {"ideas", "done"}
    /\ LET k == getPendingApproval(pendingApprovals, runs[r].sessionId) IN
       /\ k # 0
       /\ pendingApprovals[k].approved = "true"
       /\ pendingApprovals[k].research = runs[r].approvalData.research

\* C18: after the createSession of generateIdeas(query, platforms,
\* sessionId), also when a session with that sessionId exists already, there
\* is exactly one session record with that sessionId, and the record that
\* getSession returns has that query, those platforms and the status
\* researching.
C18_StartRunCreatesOrOverwrites ==
  [][\A r \in 1..Len(runs') :
       (/\ runs'[r].kind = "generate" /\ runs'[r].pc = "begin"
        /\ (r > Len(runs) \/ runs[r].pc = "gi_createSession"))
       => LET s == runs'[r].sessionId
              k == getSession(sessions', s)
          IN /\ Cardinality({j \in 1..Len(sessions') : sessions'[j].sessionId = s}) = 1
             /\ k # 0
             /\ sessions'[k].query = runs'[r].query
             /\ sessions'[k].platforms = runs'[r].platforms
             /\ sessions'[k].status = "researching"]_vars

C20_TimestampsStrictlyOrdered ==
  \A i, j \in 1..Len(messages) :
    (i < j /\ messages[i].sessionId = messages[j].sessionId)
    => messages[i].timestamp < messages[j].timestamp

\* C21: with no adapter credentials configured, every research_complete
\* that a deep run yields carries a non-empty trending_topics list and a
\* non-empty research string, whatever the model calls returned.
C21_FallbackNeverEmpty ==
  \A r \in 1..Len(runs) :
    IsDeepStart(runs[r]) /\ NoAdapterCredentials =>
      \A j \in 1..Len(runs[r].events) :
        runs[r].events[j].type = "research_complete" =>
          /\ Len(runs[r].events[j].trending_topics) > 0
          /\ runs[r].events[j].research # ""

\* the tools that the credentials of the environment make available
ToolsConfigured ==
  (IF env.tavily THEN {"tavily"} ELSE {})
    \cup (IF env.composioKey /\ env.composioUser THEN {"reddit"} ELSE {})

\* C22: under every combination of credentials, the tools that
\* research_plan selects (the list of research_plan_complete, and the list in
\* the state of the run once the stage has run) are the web-search tool iff
\* its key is configured and the community tool iff its API key and its user
\* id are both configured, or both tools when neither is; the list is never
\* empty and names no tool twice.
C22_ToolSelection ==
  \A r \in 1..Len(runs) :
    LET expected == IF ToolsConfigured = {} THEN {"tavily", "reddit"} ELSE ToolsConfigured
    IN /\ \A j \in 1..Len(runs[r].events) :
            runs[r].events[j].type = "research_plan_complete" =>
              /\ Range(runs[r].events[j].tools_to_use) = expected
              /\ Len(runs[r].events[j].tools_to_use) = Cardinality(expected)
              /\ Len(runs[r].events[j].tools_to_use) > 0
       /\ runs[r].pc \notin {"begin", "plan", "failed"} =>
            Range(runs[r].st.toolsToUse) = expected

\* research_plan has selected the web-search tool alone in an environment
\* that holds the API key of the community tool without its user id
C22_Witness ==
  \E r \in 1..Len(runs) :
    /\ env.tavily /\ env.composioKey /\ ~env.composioUser
    /\ Len(runs[r].events) >= 2
    /\ runs[r].events[2].type = "research_plan_complete"
    /\ runs[r].events[2].tools_to_use = <<"tavily">>

\* the events of run r from position i + 1 to position j - 1 are all of the
\* given type
OnlyBetween(ev, i, j, type) == \A k \in (i + 1)..(j - 1) : ev[k] = type

\* C23 (research stages): in every run, research_plan_complete comes
\* directly after step(research_plan), trend_retrieval_complete after
\* step(trend_retrieval) with only trend_candidate events between them, and
\* research_complete directly after step(research_report) or, in fast mode,
\* after step(fast_research); a run that is at work in a stage has yielded
\* the step event of that stage last.
ResearchHeartbeat(run) ==
  LET ev == Labels(run.events) IN
  /\ \A j \in 1..Len(ev) :
       /\ ev[j] = "research_plan_complete" => j > 1 /\ ev[j - 1] = "step(research_plan)"
       /\ ev[j] = "trend_retrieval_complete" =>
            \E i \in 1..(j - 1) : /\ ev[i] = "step(trend_retrieval)"
                                  /\ OnlyBetween(ev, i, j, "trend_candidate")
       /\ ev[j] = "research_complete" =>
            j > 1 /\ ev[j - 1] \in {"step(research_report)", "step(fast_research)"}
  /\ run.pc = "plan" => ev[Len(ev)] = "step(research_plan)"
  /\ run.pc = "retrieval" => ev[Len(ev)] = "step(trend_retrieval)"
  /\ run.pc = "report" => ev[Len(ev)] = "step(research_report)"
  /\ run.pc = "fast" => ev[Len(ev)] = "step(fast_research)"

\* C23: every stage that a run executes yields a step event before its work
\* and a completion event after it; in particular the first event of the
\* continuation of an approve decision is a step event, and its complete
\* event comes after a step event of the idea stage.
C23_StageHeartbeat ==
  \A r \in 1..Len(runs) :
    /\ ResearchHeartbeat(runs[r])
    /\ (runs[r].kind = "approve" /\ Len(runs[r].events) > 0) =>
         /\ runs[r].events[1].type = "step"
         /\ \A j \in 1..Len(runs[r].events) :
              runs[r].events[j].type = "complete" =>
                \E i \in 1..(j - 1) : runs[r].events[i].type = "step"

\* the failures that an operation may surface: the configuration error, the
\* not-found errors and the invalid-argument error
SurfacedErrors(run) ==
  {"OPENAI_API_KEY environment variable is not set",
   "Session " \o run.sessionId \o " not found", "Session not found",
   "Refinement text required"}

\* C24: a run of generateIdeas or approveResearch that has ended with an
\* error has ended with the configuration error, a not-found error or the
\* invalid-argument error; no rejected model call and no failed candidate
\* fetch ends a run.
C24_ErrorPropagation ==
  \A r \in 1..Len(runs) :
    runs[r].pc = "failed" => runs[r].error \in SurfacedErrors(runs[r])

\* the documents of session s in a table
Of(tbl, s) == SelectSeq(tbl, LAMBDA x : x.sessionId = s)

\* C25: a mutation called for session A (the projection of an event, the
\* store or the update of a PendingApproval, updateIdeas, createSession,
\* resetSession, deleteMessages), in any interleaving with the calls for
\* another session B, leaves the session records, the messages and the
\* PendingApproval of B as they were.
C25_SessionIsolation ==
  [][IsCall =>
       \A b \in ApiSessions \ {TheCall.sessionId} :
         /\ Of(sessions', b) = Of(sessions, b)
         /\ Of(messages', b) = Of(messages, b)
         /\ Of(pendingApprovals', b) = Of(pendingApprovals, b)]_vars

\* the messages of one session have been deleted while the other session
\* holds a session record and messages
C25_Witness ==
  /\ Len(runs) >= 2
  /\ runs[Len(runs)].op = "deleteMessages"
  /\ runs[Len(runs) - 1].op = "handleStreamEvent"
  /\ runs[Len(runs) - 1].sessionId = runs[Len(runs)].sessionId
  /\ Of(messages, runs[Len(runs)].sessionId) = <<>>
  /\ \E b \in ApiSessions \ {runs[Len(runs)].sessionId} :
       Of(sessions, b) # <<>> /\ Of(messages, b) # <<>>

\* C26: the projection of an idea_stream event and the projection of a
\* complete event whose list for a platform holds the raw idea RawIdeaA and a
\* lone comma both store for that platform the list that holds Idea A and
\* nothing else.
C26_IdeaSanitization ==
  [][(IsCall /\ TheCall.op = "handleStreamEvent") =>
       /\ (/\ TheCall.args.type = "idea_stream"
           /\ TheCall.args.ideas = <<RawIdeaA, Comma>>)
          => sessions'[getSession(sessions', TheCall.sessionId)].ideas[TheCall.args.platform] = <<IdeaA>>
       /\ (/\ TheCall.args.type = "complete"
           /\ TheCall.args.ideas = [LinkedIn |-> <<RawIdeaA, Comma>>]
           /\ getSession(sessions, TheCall.sessionId) # 0)
          => sessions'[getSession(sessions', TheCall.sessionId)].ideas["LinkedIn"] = <<IdeaA>>]_vars

\* no two entries of a list of topics have the same url or the same topic
NoDuplicateTopic(topics) ==
  \A i, j \in 1..Len(topics) :
    i # j => topics[i].url # topics[j].url /\ topics[i].topic # topics[j].topic

\* C27: the projection of a trend_candidate on a session whose
\* trendingTopics hold no duplicate (the empty list of a new session, to
\* begin with) leaves them without two entries of the same url or the same
\* topic.  A candidate whose url or title equals that of an entry changes
\* neither the sessions nor the message log; any other candidate appends
\* exactly one entry, with its title and url, to trendingTopics and exactly
\* one message, of type research, to the log.
C27_TrendCandidateAccrual ==
  [][(/\ IsCall /\ ProjectsEvent(TheCall, "trend_candidate")
      /\ getSession(sessions, TheCall.sessionId) # 0) =>
       LET k == getSession(sessions, TheCall.sessionId)
           topics == ListOr(sessions[k].trendingTopics)
           after == ListOr(sessions'[k].trendingTopics)
           title == TheCall.args.candidate.title
           url == TheCall.args.candidate.url
       IN /\ NoDuplicateTopic(topics) => NoDuplicateTopic(after)
          /\ IF \E i \in 1..Len(topics) : topics[i].url = url \/ topics[i].topic = title
             THEN sessions' = sessions /\ messages' = messages
             ELSE /\ Len(after) = Len(topics) + 1
                  /\ SubSeq(after, 1, Len(topics)) = topics
                  /\ after[Len(after)].topic = title /\ after[Len(after)].url = url
                  /\ Len(messages') = Len(messages) + 1
                  /\ IsPrefix(messages, messages')
                  /\ messages'[Len(messages')].type = "research"
                  /\ messages'[Len(messages')].sessionId = TheCall.sessionId]_vars

\* on a new session a candidate was accepted, a second one with the same
\* title and another url was rejected, and a third one was accepted
C27_Witness ==
  /\ Len(runs) = 4
  /\ runs[1].op = "createSession"
  /\ runs[2].op = "handleStreamEvent" /\ runs[2].args = Candidate("T1", "u1")
  /\ runs[3].op = "handleStreamEvent" /\ runs[3].args = Candidate("T1", "u3")
  /\ runs[4].op = "handleStreamEvent" /\ runs[4].args = Candidate("T2", "u2")
  /\ Len(Session("s1").trendingTopics) = 2
  /\ Len(messages) = 2

\* C28: the projection of one event adds at most one message to the log
\* and removes or changes none; the projection of research_plan_complete,
\* research_report_partial, research_partial or complete adds none.
C28_EventToMessage ==
  [][(IsCall /\ TheCall.op = "handleStreamEvent") =>
       /\ IsPrefix(messages, messages')
       /\ Len(messages') <= Len(messages) + 1
       /\ TheCall.args.type \in {"research_plan_complete", "research_report_partial",
                                 "research_partial", "complete"}
          => messages' = messages]_vars

\* C29: the projection of a complete event on a session stores, for every
\* platform P of the event, the list that the projection of idea_stream(P, L)
\* stores for the same raw list L.
C29_CompleteSanitizesAsIdeaStream ==
  [][(/\ IsCall /\ ProjectsEvent(TheCall, "complete")
      /\ getSession(sessions, TheCall.sessionId) # 0) =>
       LET k == getSession(sessions, TheCall.sessionId) IN
       \A P \in DOMAIN TheCall.args.ideas :
         sessions'[k].ideas[P] =
           ProjectIdeaStream(CurDB, TheCall.sessionId,
                             IdeaStreamEvent(P, TheCall.args.ideas[P])).s[k].ideas[P]]_vars

\* run r yields, in this step, an event of the given type
YieldsType(r, type) ==
  /\ Len(runs'[r].events) = Len(runs[r].events) + 1
  /\ LastEvent(runs'[r]).type = type

\* C30: at the moment an idea_stream event of the continuation of an approve
\* decision is projected, the status of the session is generating; and the
\* status of a session becomes complete only in a step that projects a
\* complete event.
C30_GeneratingBeforeIdeas ==
  [][/\ \A r \in 1..Len(runs) :
          (/\ runs[r].kind = "approve" /\ YieldsType(r, "idea_stream")
           /\ getSession(sessions, runs[r].sessionId) # 0)
          => Session(runs[r].sessionId).status = "generating"
     /\ \A k \in 1..Len(sessions) :
          (sessions[k].status # "complete" /\ sessions'[k].status = "complete")
          => \E r \in 1..Len(runs) :
               runs[r].sessionId = sessions[k].sessionId /\ YieldsType(r, "complete")]_vars

\* run r stores the PendingApproval of its research checkpoint in this step
StoresApproval(r) ==
  \/ runs[r].pc = "store1" /\ runs'[r].pc = "approval_required"
  \/ runs[r].pc = "store2" /\ runs'[r].pc = "done"

\* C31: the PendingApproval that a run writes at its research checkpoint
\* holds the persona, the mode, the platforms and the query of the run, and
\* the scope in the state of the run (the one research_plan inferred).
C31_ApprovalCarriesRunParameters ==
  [][\A r \in 1..Len(runs) :
       StoresApproval(r) =>
         LET rec == pendingApprovals'[getPendingApproval(pendingApprovals', runs[r].sessionId)]
         IN /\ Get(rec, "persona") = runs[r].persona
            /\ rec.mode = runs[r].mode
            /\ rec.platforms = runs[r].platforms
            /\ rec.originalQuery = runs[r].query
            /\ rec.scope = runs[r].st.scope]_vars

\* the urls of the trend_candidate events among the events, in their order
AnnouncedUrls(events) ==
  LET c == SelectSeq(events, LAMBDA e : e.type = "trend_candidate")
  IN [i \in 1..Len(c) |-> c[i].candidate.url]

\* the urls of a list of trends or topics
Urls(list) == [i \in 1..Len(list) |-> list[i].url]

\* C32: in a deep run every research stage runs once, so the enriched_trends
\* and the trending_topics of research_complete are those of the candidates
\* that the trend_candidate events of the run announced, in the same order,
\* and as many as trend_retrieval_complete counted.
C32_StagesRunOnce ==
  \A r \in 1..Len(runs) :
    \A j \in 1..Len(runs[r].events) :
      (runs[r].mode = "deep" /\ runs[r].events[j].type = "research_complete") =>
        LET ev == runs[r].events
            counted == SelectSeq(ev, LAMBDA e : e.type = "trend_retrieval_complete")
        IN /\ Urls(ev[j].enriched_trends) = AnnouncedUrls(ev)
           /\ Urls(ev[j].trending_topics) = AnnouncedUrls(ev)
           /\ Len(counted) = 1
           /\ counted[1].enriched_count = Len(ev[j].enriched_trends)

\* the events of a deep run that found no candidate
NoCandidateSequence ==
  <<"step(research_plan)", "research_plan_complete", "step(trend_retrieval)",
    "trend_retrieval_complete", "step(research_report)", "research_complete",
    "approval_required">>

\* the outcome of a web search that fails
FailedFetch == [kind |-> "error"]

\* C33: a failing fetch of the configured web search is absorbed: the adapter
\* contributes no candidate and the run does not fail on it, neither in the
\* retrieval stage nor in the stages that follow; with no candidate at all the
\* retrieval is followed by trend_retrieval_complete with candidates_count 0
\* and no trend_candidate, and the run that returns has emitted the whole
\* sequence up to research_complete and approval_required.
C33_AdapterFailureAbsorbed ==
  [][\A r \in 1..Len(runs) :
       /\ (env.tavily /\ \E outs \in EnrichOutcomes : TrendRetrieval(r, FailedFetch, outs)) =>
            /\ runs'[r].pc # "failed"
            /\ \A i \in 1..Len(runs'[r].st.trendCandidates) :
                 runs'[r].st.trendCandidates[i].source # "tavily"
            /\ Len(runs'[r].st.trendCandidates) = 0 =>
                 /\ Labels(runs'[r].events) = SubSeq(NoCandidateSequence, 1, 4)
                 /\ LastEvent(runs'[r]).candidates_count = 0
       /\ (env.tavily /\ \E text1 \in ReportOutcomes \ {"throw"}, text2 \in ReportOutcomes \ {"throw"},
                            planOut \in PlanOutcomes \ {Throws}, outs \in EnrichOutcomes :
                              ResearchReport(r, text1, planOut, FailedFetch, outs, text2)) =>
            /\ runs'[r].pc = "store1"
            /\ LastEvent(runs'[r]).type = "research_complete"
       /\ (/\ runs[r].mode = "deep" /\ runs[r].pc = "store2" /\ runs'[r].pc = "done"
           /\ \A j \in 1..Len(runs[r].events) : runs[r].events[j].type # "trend_candidate") =>
            /\ Labels(runs'[r].events) = NoCandidateSequence
            /\ runs'[r].events[4].candidates_count = 0]_vars

\* a run with the web search configured has returned after both of its
\* fetches failed: no candidate was announced or counted, none is reported
C33_Witness ==
  \E r \in 1..Len(runs) :
    /\ env.tavily /\ runs[r].mode = "deep" /\ runs[r].pc = "done"
    /\ Labels(runs[r].events) = NoCandidateSequence
    /\ runs[r].events[4].candidates_count = 0
    /\ runs[r].events[6].enriched_trends = <<>>

\* run r is started or advanced by the step, and is a call of one of the kinds
CallStep(r, kinds) ==
  /\ runs'[r].kind \in kinds
  /\ r > Len(runs) \/ runs'[r] # runs[r]

\* the step leaves the three tables alone and run r has emitted no event
NothingHappened(r) ==
  /\ sessions' = sessions /\ messages' = messages /\ pendingApprovals' = pendingApprovals
  /\ runs'[r].events = <<>>

\* C34: without the text-generation credential no step of generateIdeas or of
\* approveResearch emits an event or creates or changes a session, a message
\* or a PendingApproval record.
C34_ConfigurationError ==
  [][~env.openai =>
       \A r \in 1..Len(runs') :
         CallStep(r, {"generate", "approve", "refine", "restart"}) => NothingHappened(r)]_vars

\* the smaller of two numbers
Min(a, b) == IF a < b THEN a ELSE b

\* the labels of a deep run from its first event to the announcement of k
\* candidates, followed by the count when counted
RetrievalLabels(k, counted) ==
  <<"step(research_plan)", "research_plan_complete", "step(trend_retrieval)">>
  \o [i \in 1..k |-> "trend_candidate"]
  \o (IF counted THEN <<"trend_retrieval_complete">> ELSE <<>>)

\* C35: in a deep run whose retrieval found n raw candidates, the events that
\* follow step(trend_retrieval) are exactly n trend_candidate events, one per
\* candidate in candidate order, and then trend_retrieval_complete with
\* candidates_count n and enriched_count min(n, 15); the enriched trends are
\* those of the first min(n, 15) candidates, one each, whatever the
\* enrichment calls answered.
C35_TrendRetrievalCounts ==
  \A r \in 1..Len(runs) :
    LET run == runs[r]
        n == Len(run.st.trendCandidates)
        counted == run.pc # "candidates"
        k == IF counted THEN n ELSE run.i - 1
    IN (run.mode = "deep" /\ run.pc \in {"candidates", "report_step", "report"}) =>
         /\ k <= n
         /\ IsPrefix(RetrievalLabels(k, counted), Labels(run.events))
         /\ Len(run.events) = Len(RetrievalLabels(k, counted)) + (IF run.pc = "report" THEN 1 ELSE 0)
         /\ \A i \in 1..k :
              run.events[3 + i].candidate
                = [title |-> run.st.trendCandidates[i].title,
                   source |-> run.st.trendCandidates[i].source,
                   url |-> run.st.trendCandidates[i].url]
         /\ counted => /\ run.events[4 + n].candidates_count = n
                        /\ run.events[4 + n].enriched_count = Min(n, EnrichCap)
         /\ Len(run.st.enrichedTrends) = Min(n, EnrichCap)
         /\ \A i \in 1..Min(n, EnrichCap) :
              /\ run.st.enrichedTrends[i].url = run.st.trendCandidates[i].url
              /\ run.st.enrichedTrends[i].title = run.st.trendCandidates[i].title
              /\ run.st.enrichedTrends[i].summary # ""

\* a retrieval found more candidates than are enriched and every enrichment
\* call was rejected: all were announced, the first 15 are enriched
C35_Witness ==
  \E r \in 1..Len(runs) :
    /\ runs[r].mode = "deep" /\ runs[r].pc = "report_step"
    /\ Len(runs[r].st.trendCandidates) > EnrichCap
    /\ LastEvent(runs[r]).enriched_count = EnrichCap
    /\ runs[r].st.enrichedTrends[1].why_it_matters = "Relevant trend for marketing"

\* the factor that the source of a trend triggers, as the claim states it
SourceFactor(trend) ==
  IF trend.source = "tavily" THEN "High-quality web source"
  ELSE IF Has(trend, "score") /\ trend.score > 100 THEN "High Reddit engagement"
  ELSE "Moderate Reddit engagement"

\* C36: the report scores the first 10 enriched trends, each by its evidence
\* count: High from 2, Medium at 1, Low at 0; a community trend triggers the
\* high-engagement factor only with a score above 100 (moderate engagement
\* at 100 and without a score); the rationale joins the triggered factors,
\* the source factor before the evidence factor.
C36_RuleBasedConfidence ==
  \A r \in 1..Len(runs) :
    LET st == runs[r].st IN
    st.currentStep = "research_report_complete" =>
      /\ Len(st.confidenceScores) = Min(Len(st.enrichedTrends), 10)
      /\ \A i \in 1..Len(st.confidenceScores) :
           LET trend == st.enrichedTrends[i]
               count == Len(trend.key_evidence)
               score == st.confidenceScores[i]
           IN /\ count >= 2 =>
                   /\ score.confidence = "High"
                   /\ score.rationale = SourceFactor(trend) \o "; Multiple supporting sources"
              /\ count = 1 =>
                   /\ score.confidence = "Medium"
                   /\ score.rationale = SourceFactor(trend) \o "; Single supporting source"
              /\ count = 0 =>
                   /\ score.confidence = "Low"
                   /\ score.rationale = SourceFactor(trend)

\* eleven community trends with a score of exactly 100 and two evidence
\* points were reported: ten are scored, with moderate engagement
C36_Witness ==
  \E r \in 1..Len(runs) :
    LET st == runs[r].st IN
    /\ st.currentStep = "research_report_complete"
    /\ Len(st.enrichedTrends) = 11 /\ Len(st.confidenceScores) = 10
    /\ st.enrichedTrends[1].source = "reddit"
    /\ Has(st.enrichedTrends[1], "score") /\ st.enrichedTrends[1].score = 100
    /\ st.confidenceScores[1]
         = [confidence |-> "High",
            rationale |-> "Moderate Reddit engagement; Multiple supporting sources"]

FastSequence == <<"step(fast_research)", "research_complete", "approval_required">>

\* C37: a fast run emits step(fast_research), research_complete and
\* approval_required, in that order and nothing else, and fails only when
\* the model call is rejected; whatever text the model returned, the
\* research of its research_complete is a non-empty string, its
\* trending_topics is a list of at least one topic and its confidence_scores
\* hold at least one score.
C37_FastModeEvents ==
  \A r \in 1..Len(runs) :
    LET run == runs[r] IN
    (run.kind = "generate" /\ run.mode = "fast") =>
      /\ IsPrefix(Labels(run.events), FastSequence)
      /\ Returned(run) => Labels(run.events) = FastSequence
      /\ run.pc = "failed" => run.error = "llm"
      /\ \A j \in 1..Len(run.events) :
           run.events[j].type = "research_complete" =>
             /\ Truthy(run.events[j].research)
             /\ run.events[j].trending_topics # NotArray
             /\ Len(run.events[j].trending_topics) >= 1
             /\ Len(run.events[j].confidence_scores) >= 1

\* the same for the answers in which trending_topics is a list or is absent
C37_FastModeEventsOfLists ==
  \A r \in 1..Len(runs) :
    LET run == runs[r] IN
    (/\ run.kind = "generate" /\ run.mode = "fast"
     /\ \A j \in 1..Len(run.events) :
          run.events[j].type = "research_complete" => run.events[j].trending_topics # NotArray) =>
      /\ IsPrefix(Labels(run.events), FastSequence)
      /\ Returned(run) => Labels(run.events) = FastSequence
      /\ run.pc = "failed" => run.error = "llm"
      /\ \A j \in 1..Len(run.events) :
           run.events[j].type = "research_complete" =>
             /\ Truthy(run.events[j].research)
             /\ Len(run.events[j].trending_topics) >= 1
             /\ Len(run.events[j].confidence_scores) >= 1

\* the session as resetSession leaves it
Cleared(tbl, s) ==
  LET k == getSession(tbl, s) IN
  /\ k # 0
  /\ tbl[k].research = Undefined /\ tbl[k].sources = NoSeq
  /\ tbl[k].trendingTopics = NoSeq /\ tbl[k].ideas = NoList
  /\ tbl[k].status = "researching"

\* restart k of the component has reset the session and no run started
\* after it has had an event projected
ResetStands(k) ==
  /\ runs[k].kind = "restart" /\ runs[k].ui /\ runs[k].pc = "done"
  /\ \A r \in (k + 1)..Len(runs') : r > Len(runs) \/ runs'[r].events = <<>>

\* C38: after the reset of a restart, the session stays cleared, with the
\* status researching, in every step up to the first projection of an event
\* of a run started after the restart; the events of a run started before
\* it do not change the session any more.
C38_RestartNotUndone ==
  [][\A k \in 1..Len(runs) :
       (ResetStands(k) /\ Cleared(sessions, runs[k].sessionId)) =>
         Cleared(sessions', runs[k].sessionId)]_vars

\* C39: whenever the status of a session is waiting_approval, a
\* PendingApproval record of the session exists and holds the research of
\* the session (so approveResearch finds it).
C39_HandOffInvariant ==
  \A s \in {sessions[k].sessionId : k \in 1..Len(sessions)} :
    Session(s).status = "waiting_approval" =>
      LET p == getPendingApproval(pendingApprovals, s) IN
      /\ p # 0
      /\ pendingApprovals[p].research = Session(s).research

\* the step is one of the two mutations of the Restart button on run r
RestartMutation(r) ==
  /\ runs'[r].kind = "restart" /\ runs'[r].ui
  /\ r > Len(runs) \/ (runs[r].pc = "ha_resetSession" /\ runs'[r].pc = "done")

\* the research of the last research checkpoint before run r
CheckpointResearch(r) ==
  LET before == {q \in 1..(r - 1) : IsResearchRun(runs[q]) /\ Returned(runs[q])}
      last == CHOOSE q \in before : \A q2 \in before : q2 <= q
  IN LastEvent(runs[last]).research

\* C40: deleteMessages and resetSession of a restart leave the
\* PendingApproval records as they are; an approve that finds the record of
\* its session goes on to the idea generation with the research of the last
\* research checkpoint, whatever the status of the session and the approved
\* flag of the record are, and from there it fails only when a model call is
\* rejected and ends with the complete event.
C40_ApproveUsesStoredCheckpoint ==
  [][\A r \in 1..Len(runs') :
       /\ RestartMutation(r) => pendingApprovals' = pendingApprovals
       /\ (/\ r <= Len(runs) /\ runs[r].kind = "approve" /\ runs[r].pc = "ar_get"
           /\ runs'[r] # runs[r]
           /\ getPendingApproval(pendingApprovals, runs[r].sessionId) # 0) =>
            /\ runs'[r].pc = "ar_update"
            /\ runs'[r].approvalData.research = CheckpointResearch(r)
       /\ (/\ r <= Len(runs) /\ runs[r].kind = "approve"
           /\ runs[r].pc \in {"ar_update", "ideas"} /\ runs'[r] # runs[r]) =>
            /\ runs'[r].pc = "failed" => runs'[r].error = "llm"
            /\ runs'[r].pc = "done" => LastEvent(runs'[r]).type = "complete"]_vars

\* an approve called after a restart has completed, and a second approve
\* after it, on the record that the first had marked approved, has completed
\* too, both with the research of the checkpoint of the first run
C40_Witness ==
  \E k, a, b \in 1..Len(runs) :
    /\ 1 < k /\ k < a /\ a < b
    /\ IsResearchRun(runs[1]) /\ Returned(runs[1])
    /\ runs[k].kind = "restart" /\ runs[k].ui /\ runs[k].pc = "done"
    /\ \A r \in {a, b} :
         /\ runs[r].kind = "approve" /\ runs[r].pc = "done"
         /\ LastEvent(runs[r]).type = "complete"
         /\ runs[r].approvalData.research = LastEvent(runs[1]).research
    /\ runs[b].approvalData.approved = "true"

====
